---- MODULE Spec2Model ----
(***************************************************************************)
(* Unity project analyzer: the .meta / C# / Unity-YAML parsers, the        *)
(* guid-keyed asset registry of UnityProjectAnalyzer, the dependency graph *)
(* builder, the project summary and the dependency graph view.             *)
(*                                                                         *)
(* Texts (paths, file contents, guids) are strings; the parsers scan them  *)
(* character by character the way the source's regular expressions do.     *)
(* Opaque ids (crypto.randomUUID) are drawn from a counter.  Wall-clock    *)
(* fields (created_at, updated_at, last_parsed_at) and the canvas          *)
(* coordinates of the graph view are not carried: no operation reads them. *)
(***************************************************************************)
EXTENDS Integers, Sequences, FiniteSets, TLC

\* null / undefined where a string is expected, and where an object is expected
Null == "<null>"
None == [none |-> TRUE]

(***************************************************************************)
(* JavaScript string primitives                                            *)
(***************************************************************************)
Ch(s, i) == SubSeq(s, i, i)

CharsOf(s) == {Ch(s, i) : i \in 1..Len(s)}

UpperAlpha == "ABCDEFGHIJKLMNOPQRSTUVWXYZ"
LowerAlpha == "abcdefghijklmnopqrstuvwxyz"
Digits == "0123456789"

\* \w, \s, \d and [a-f0-9] (with the i flag) of the source's regular expressions
WordChars == CharsOf(UpperAlpha) \cup CharsOf(LowerAlpha) \cup CharsOf(Digits) \cup {"_"}
SpaceChars == {" ", "\t", "\n", "\r"}
DigitChars == CharsOf(Digits)
HexCharsI == CharsOf("abcdef") \cup CharsOf("ABCDEF") \cup CharsOf(Digits)

\* String.prototype.substring(from) with 1-based from
From(s, i) == SubSeq(s, i, Len(s))

\* does pat occur in s at position i
At(s, i, pat) ==
  /\ i >= 1
  /\ i + Len(pat) - 1 <= Len(s)
  /\ SubSeq(s, i, i + Len(pat) - 1) = pat

\* v named x in F, computed once (a local const of the source)
With(v, F(_)) == CHOOSE r \in {F(x) : x \in {v}} : TRUE

\* the least j in lo..hi with P(j), 0 when there is none: a left-to-right scan
First(lo, hi, P(_)) ==
  With({j \in lo..hi : P(j)}, LAMBDA hits :
    IF hits = {} THEN 0 ELSE CHOOSE j \in hits : \A k \in hits : j <= k)

\* the greatest j in lo..hi with P(j), 0 when there is none
Last(lo, hi, P(_)) ==
  With({j \in lo..hi : P(j)}, LAMBDA hits :
    IF hits = {} THEN 0 ELSE CHOOSE j \in hits : \A k \in hits : j >= k)

\* String.prototype.indexOf(pat, from): first position >= i, 0 when there is none
IndexFrom(s, pat, i) == First(i, Len(s), LAMBDA j : At(s, j, pat))

\* String.prototype.lastIndexOf(pat, from): last position <= i, 0 when there is none
LastIndexFrom(s, pat, i) == Last(1, i, LAMBDA j : At(s, j, pat))

\* s.replace(pat, rep) with a string pattern: the first occurrence only
Replace(s, pat, rep) ==
  With(IndexFrom(s, pat, 1), LAMBDA i :
    IF i = 0 THEN s
    ELSE SubSeq(s, 1, i - 1) \o rep \o From(s, i + Len(pat)))

\* s.split(sep).pop() for a one-character separator: the text after the last sep
SplitPop(s, sep) == From(s, LastIndexFrom(s, sep, Len(s)) + 1)

LowerChar(c) ==
  With(IndexFrom(UpperAlpha, c, 1), LAMBDA i :
    IF i = 0 THEN c ELSE Ch(LowerAlpha, i))

RECURSIVE ToLowerCaseFrom(_, _)
ToLowerCaseFrom(s, i) ==
  IF i > Len(s) THEN "" ELSE LowerChar(Ch(s, i)) \o ToLowerCaseFrom(s, i + 1)

ToLowerCase(s) == ToLowerCaseFrom(s, 1)

\* the end (exclusive) of a run that starts at i and stops at `stop` (0: never)
RunStop(s, i, stop) ==
  IF stop = 0 THEN (IF i > Len(s) THEN i ELSE Len(s) + 1) ELSE stop

\* end (exclusive) of the longest run of characters of class cls starting at i
RunEnd(s, i, cls) ==
  With(First(i, Len(s), LAMBDA j : Ch(s, j) \notin cls), LAMBDA stop : RunStop(s, i, stop))

\* end (exclusive) of the longest run of characters other than c starting at i
RunEndNot(s, i, c) ==
  With(First(i, Len(s), LAMBDA j : Ch(s, j) = c), LAMBDA stop : RunStop(s, i, stop))

\* end (exclusive) of the longest run of non-white-space characters starting at i
RunEndNotIn(s, i) ==
  With(First(i, Len(s), LAMBDA j : Ch(s, j) \in SpaceChars), LAMBDA stop : RunStop(s, i, stop))

\* end (exclusive) of the text . can match from i: up to the next line break
RunEndNotLineBreak(s, i) ==
  With(First(i, Len(s), LAMBDA j : Ch(s, j) \in {"\n", "\r"}), LAMBDA stop : RunStop(s, i, stop))

\* parseInt of a run of decimal digits: the value of its first n digits
RECURSIVE ParseIntUpTo(_, _)
ParseIntUpTo(s, n) ==
  IF n = 0 THEN 0
  ELSE 10 * ParseIntUpTo(s, n - 1) + (IndexFrom(Digits, Ch(s, n), 1) - 1)

ParseInt(s) == ParseIntUpTo(s, Len(s))

(***************************************************************************)
(* MetaFileParser                                                          *)
(***************************************************************************)
DefaultFileFormatVersion == 2

\* the guid expression without its i flag on the label
GuidAtCaseSensitive(s, i) ==
  IF At(s, i, "guid:")
  THEN With(RunEnd(s, i + 5, SpaceChars), LAMBDA g :
       With(RunEnd(s, g, HexCharsI), LAMBDA e :
         IF e > g THEN SubSeq(s, g, e - 1) ELSE Null))
  ELSE Null

\* /guid:\s*([a-f0-9]+)/i anchored at i: the captured group, Null when it
\* does not match there
GuidAt(s, i) ==
  IF i + 4 <= Len(s) /\ ToLowerCase(SubSeq(s, i, i + 4)) = "guid:"
  THEN With(RunEnd(s, i + 5, SpaceChars), LAMBDA g :
       With(RunEnd(s, g, HexCharsI), LAMBDA e :
         IF e > g THEN SubSeq(s, g, e - 1) ELSE Null))
  ELSE Null

\* the captured group of the leftmost match at or after i
GuidMatchFrom(s, i) ==
  With(First(i, Len(s), LAMBDA k : GuidAt(s, k) # Null), LAMBDA j :
    IF j = 0 THEN Null ELSE GuidAt(s, j))

\* /fileFormatVersion:\s*(\d+)/
VersionAt(s, i) ==
  IF At(s, i, "fileFormatVersion:")
  THEN With(RunEnd(s, i + Len("fileFormatVersion:"), SpaceChars), LAMBDA g :
       With(RunEnd(s, g, DigitChars), LAMBDA e :
         IF e > g THEN SubSeq(s, g, e - 1) ELSE Null))
  ELSE Null

VersionMatchFrom(s, i) ==
  With(First(i, Len(s), LAMBDA k : VersionAt(s, k) # Null), LAMBDA j :
    IF j = 0 THEN Null ELSE VersionAt(s, j))

\* faulty variant: a text without a guid is accepted with an empty guid
MetaFileParser_parseLenient(content) ==
  With(GuidMatchFrom(content, 1), LAMBDA guidMatch :
    [guid |-> IF guidMatch # Null THEN guidMatch ELSE "",
     fileFormatVersion |-> DefaultFileFormatVersion])

MetaFileParser_parse(content) ==
  With(GuidMatchFrom(content, 1), LAMBDA guidMatch :
  With(VersionMatchFrom(content, 1), LAMBDA versionMatch :
    IF guidMatch # Null
    THEN [guid |-> guidMatch,
          fileFormatVersion |-> IF versionMatch # Null THEN ParseInt(versionMatch)
                                ELSE DefaultFileFormatVersion]
    ELSE None))

(***************************************************************************)
(* Array helpers                                                           *)
(***************************************************************************)
Range(seq) == {seq[i] : i \in 1..Len(seq)}

MapSeq(seq, Op(_)) == [i \in 1..Len(seq) |-> Op(seq[i])]

\* [...new Set(arr)]: the first occurrence of each value, in order
RECURSIVE DedupUpTo(_, _)
DedupUpTo(seq, n) ==
  IF n = 0 THEN <<>>
  ELSE With(DedupUpTo(seq, n - 1), LAMBDA init :
         IF seq[n] \in Range(init) THEN init ELSE Append(init, seq[n]))

Dedup(seq) == DedupUpTo(seq, Len(seq))

\* s.split(sep) for a one-character separator: the parts from position i on
RECURSIVE SplitFrom(_, _, _)
SplitFrom(s, sep, i) ==
  With(IndexFrom(s, sep, i), LAMBDA j :
    IF j = 0 THEN <<From(s, i)>>
    ELSE <<SubSeq(s, i, j - 1)>> \o SplitFrom(s, sep, j + 1))

Split(s, sep) == SplitFrom(s, sep, 1)

\* s.split(/\s+/): the separators are the maximal runs of white space
RECURSIVE SplitSpacesFrom(_, _)
SplitSpacesFrom(s, i) ==
  With(RunEndNotIn(s, i), LAMBDA e :
    IF e > Len(s) THEN <<From(s, i)>>
    ELSE With(RunEnd(s, e, SpaceChars), LAMBDA next :
           <<SubSeq(s, i, e - 1)>> \o SplitSpacesFrom(s, next)))

SplitSpaces(s) == SplitSpacesFrom(s, 1)

TrimEnd(s) == SubSeq(s, 1, Last(1, Len(s), LAMBDA j : Ch(s, j) \notin SpaceChars))

Trim(s) == With(From(s, RunEnd(s, 1, SpaceChars)), LAMBDA rest : TrimEnd(rest))

(***************************************************************************)
(* CSharpParser                                                            *)
(***************************************************************************)
UNITY_MESSAGES ==
  <<"Awake", "Start", "Update", "FixedUpdate", "LateUpdate",
    "OnEnable", "OnDisable", "OnDestroy", "OnApplicationQuit",
    "OnCollisionEnter", "OnCollisionExit", "OnTriggerEnter", "OnTriggerExit">>

MethodAttributeWindow == 200
FieldAttributeWindow == 100

\* /namespace\s+([\w.]+)/
NamespaceAt(s, i) ==
  IF At(s, i, "namespace")
  THEN With(RunEnd(s, i + Len("namespace"), SpaceChars), LAMBDA g :
       With(RunEnd(s, g, WordChars \cup {"."}), LAMBDA e :
         IF g > i + Len("namespace") /\ e > g THEN SubSeq(s, g, e - 1) ELSE Null))
  ELSE Null

extractNamespace(content) ==
  With(First(1, Len(content), LAMBDA k : NamespaceAt(content, k) # Null), LAMBDA j :
    IF j = 0 THEN "" ELSE NamespaceAt(content, j))

\* /(?:public|internal|private)?\s*class\s+(\w+)/: the optional prefix never
\* decides whether or what the pattern captures, only where the match starts
ClassNameAt(s, i) ==
  IF At(s, i, "class")
  THEN With(RunEnd(s, i + Len("class"), SpaceChars), LAMBDA g :
       With(RunEnd(s, g, WordChars), LAMBDA e :
         IF g > i + Len("class") /\ e > g THEN SubSeq(s, g, e - 1) ELSE Null))
  ELSE Null

extractClassName(content) ==
  With(First(1, Len(content), LAMBDA k : ClassNameAt(content, k) # Null), LAMBDA j :
    IF j = 0 THEN Null ELSE ClassNameAt(content, j))

\* /class\s+\w+\s*:\s*([^{]+)/: the captured text, Null when nothing matches.
\* When only white space separates the colon from the brace (or the end), the
\* engine gives the last white-space character back to the capture group.
BaseListAt(s, i) ==
  IF At(s, i, "class")
  THEN With(RunEnd(s, i + Len("class"), SpaceChars), LAMBDA g :
       With(RunEnd(s, g, WordChars), LAMBDA e :
       With(RunEnd(s, e, SpaceChars), LAMBDA c :
       With(RunEnd(s, c + 1, SpaceChars), LAMBDA a :
       With(RunEndNot(s, a, "{"), LAMBDA z :
         IF g > i + Len("class") /\ e > g /\ At(s, c, ":")
         THEN IF z > a THEN SubSeq(s, a, z - 1)
              ELSE IF a > c + 1 THEN Ch(s, a - 1)
              ELSE Null
         ELSE Null)))))
  ELSE Null

BaseListFrom(s, i) ==
  With(First(i, Len(s), LAMBDA k : BaseListAt(s, k) # Null), LAMBDA j :
    IF j = 0 THEN Null ELSE BaseListAt(s, j))

NonEmpty(t) == Len(t) > 0

extractBaseTypes(content) ==
  With(BaseListFrom(content, 1), LAMBDA match :
    IF match = Null THEN <<>>
    ELSE With(Split(match, ","), LAMBDA parts :
         With(MapSeq(parts, Trim), LAMBDA trimmed : SelectSeq(trimmed, NonEmpty))))

\* end of the first of the alternatives kws (in pattern order) that occurs at i; 0 when none does
KeywordEnd(s, i, kws) ==
  With(First(1, Len(kws), LAMBDA n : At(s, i, kws[n])), LAMBDA n :
    IF n = 0 THEN 0 ELSE i + Len(kws[n]))

\* One optional group (?:k1|k2|...)?\s* of a declaration pattern, applied to the
\* positions the engine can stand at, most preferred first: the greedy engine
\* first takes the keyword, and only on a later failure comes back to skip it.
RECURSIVE OptionalKeywordFrom(_, _, _, _)
OptionalKeywordFrom(s, starts, kws, n) ==
  IF n > Len(starts) THEN <<>>
  ELSE With(KeywordEnd(s, starts[n], kws), LAMBDA k :
         (IF k = 0 THEN <<>> ELSE <<RunEnd(s, k, SpaceChars)>>)
         \o <<RunEnd(s, starts[n], SpaceChars)>>
         \o OptionalKeywordFrom(s, starts, kws, n + 1))

OptionalKeyword(s, starts, kws) == OptionalKeywordFrom(s, starts, kws, 1)

\* (\w+(?:<[^>]+>)?)\s+(\w+)\s* at q: [type, name, end] or None
TypeAndNameAt(s, q) ==
  With(RunEnd(s, q, WordChars), LAMBDA w :
  IF w = q THEN None ELSE
  With(RunEndNot(s, w + 1, ">"), LAMBDA gt :
  With(IF At(s, w, "<") /\ gt > w + 1 /\ gt <= Len(s) THEN gt + 1 ELSE w, LAMBDA t :
  With(RunEnd(s, t, SpaceChars), LAMBDA n :
  With(RunEnd(s, n, WordChars), LAMBDA m :
    IF n > t /\ m > n
    THEN [type |-> SubSeq(s, q, t - 1), name |-> SubSeq(s, n, m - 1),
          end |-> RunEnd(s, m, SpaceChars)]
    ELSE None)))))

\* the rest of methodRegex after the optional modifiers, at q
MethodCoreAt(s, q) ==
  With(TypeAndNameAt(s, q), LAMBDA tn :
    IF tn = None THEN None
    ELSE With(RunEndNot(s, tn.end + 1, ")"), LAMBDA close :
           IF At(s, tn.end, "(") /\ close <= Len(s)
           THEN [returnType |-> tn.type, name |-> tn.name,
                 paramsStr |-> SubSeq(s, tn.end + 1, close - 1), end |-> close + 1]
           ELSE None))

\* the rest of fieldRegex after the optional modifiers, at q
FieldCoreAt(s, q) ==
  With(TypeAndNameAt(s, q), LAMBDA tn :
    IF tn = None THEN None
    ELSE IF At(s, tn.end, ";") \/ At(s, tn.end, "=")
         THEN [type |-> tn.type, name |-> tn.name, end |-> tn.end + 1]
         ELSE None)

\* the match at the first of the positions qs, in order, where the rest matches
FirstMethodCore(s, qs) ==
  With(First(1, Len(qs), LAMBDA n : MethodCoreAt(s, qs[n]) # None), LAMBDA n :
    IF n = 0 THEN None ELSE MethodCoreAt(s, qs[n]))

FirstFieldCore(s, qs) ==
  With(First(1, Len(qs), LAMBDA n : FieldCoreAt(s, qs[n]) # None), LAMBDA n :
    IF n = 0 THEN None ELSE FieldCoreAt(s, qs[n]))

\* methodRegex anchored at p
MethodMatchAt(s, p) ==
  With(OptionalKeyword(s, <<p>>, <<"public", "private", "protected", "internal">>), LAMBDA q1 :
  With(OptionalKeyword(s, q1, <<"static">>), LAMBDA q2 :
  With(OptionalKeyword(s, q2, <<"virtual", "override", "async">>), LAMBDA q3 :
    FirstMethodCore(s, q3))))

\* fieldRegex anchored at p
FieldMatchAt(s, p) ==
  With(OptionalKeyword(s, <<p>>, <<"public", "private", "protected", "internal">>), LAMBDA q1 :
  With(OptionalKeyword(s, q1, <<"static", "readonly">>), LAMBDA q2 :
    FirstFieldCore(s, q2)))

\* /\[(\w+)(?:\([^)]*\))?\]/g over `before`, each match mapped to its name
\* one attribute match anchored at j: [name, end] or None
AttributeAt(before, j) ==
  IF ~At(before, j, "[") THEN None ELSE
  With(RunEnd(before, j + 1, WordChars), LAMBDA w :
  With(RunEndNot(before, w + 1, ")"), LAMBDA close :
  With(IF At(before, w, "(") /\ close <= Len(before) THEN close + 1 ELSE w, LAMBDA e :
    IF w > j + 1 /\ At(before, e, "]")
    THEN [name |-> SubSeq(before, j + 1, w - 1), end |-> e + 1]
    ELSE None)))

RECURSIVE AttributesFrom(_, _)
AttributesFrom(before, i) ==
  With(First(i, Len(before), LAMBDA k : AttributeAt(before, k) # None), LAMBDA j :
    IF j = 0 THEN <<>>
    ELSE With(AttributeAt(before, j), LAMBDA match :
           <<match.name>> \o AttributesFrom(before, match.end)))

\* content.substring(Math.max(0, position - window), position), position 1-based
Before(content, position, window) ==
  SubSeq(content, IF position - window > 1 THEN position - window ELSE 1, position - 1)

extractMethodAttributes(content, position) ==
  With(Before(content, position, MethodAttributeWindow), LAMBDA before :
    AttributesFrom(before, 1))

extractFieldAttributes(content, position) ==
  With(Before(content, position, FieldAttributeWindow), LAMBDA before :
    AttributesFrom(before, 1))

Includes(arr, v) == \E i \in 1..Len(arr) : arr[i] = v

Parameter(p) ==
  With(Trim(p), LAMBDA trimmed :
  With(SplitSpaces(trimmed), LAMBDA parts :
    [type |-> parts[1], name |-> IF Len(parts) >= 2 THEN parts[2] ELSE ""]))

NonBlank(p) == Len(Trim(p)) > 0

\* the exec loop of extractMethods, resumed at lastIndex
RECURSIVE MethodsFrom(_, _)
MethodsFrom(content, lastIndex) ==
  With(First(lastIndex, Len(content), LAMBDA p : MethodMatchAt(content, p) # None), LAMBDA index :
    IF index = 0 THEN <<>>
    ELSE With(MethodMatchAt(content, index), LAMBDA match :
         With(Split(match.paramsStr, ","), LAMBDA params :
         With(SelectSeq(params, NonBlank), LAMBDA given :
           <<[name |-> match.name,
              returnType |-> match.returnType,
              parameters |-> MapSeq(given, Parameter),
              attributes |-> extractMethodAttributes(content, index),
              isUnityMessage |-> Includes(UNITY_MESSAGES, match.name)]>>
           \o MethodsFrom(content, match.end)))))

extractMethods(content) == MethodsFrom(content, 1)

\* the exec loop of extractFields, resumed at lastIndex
RECURSIVE FieldsFrom(_, _)
FieldsFrom(content, lastIndex) ==
  With(First(lastIndex, Len(content), LAMBDA p : FieldMatchAt(content, p) # None), LAMBDA index :
    IF index = 0 THEN <<>>
    ELSE With(FieldMatchAt(content, index), LAMBDA match :
         With(extractFieldAttributes(content, index), LAMBDA attributes :
           <<[name |-> match.name,
              type |-> match.type,
              attributes |-> attributes,
              isSerializedField |-> Includes(attributes, "SerializeField")]>>
           \o FieldsFrom(content, match.end))))

extractFields(content) == FieldsFrom(content, 1)

\* one match of /prefix(\w+)suffix/ anchored at j: [text, end] or None
CaptureAt(s, prefix, suffix, j) ==
  IF ~At(s, j, prefix) THEN None ELSE
  With(RunEnd(s, j + Len(prefix), WordChars), LAMBDA w :
    IF w > j + Len(prefix) /\ At(s, w, suffix)
    THEN [text |-> SubSeq(s, j + Len(prefix), w - 1), end |-> w + Len(suffix)]
    ELSE None)

\* every capture of /prefix(\w+)suffix/g, in order
RECURSIVE Captures(_, _, _, _)
Captures(s, prefix, suffix, i) ==
  With(First(i, Len(s), LAMBDA k : CaptureAt(s, prefix, suffix, k) # None), LAMBDA j :
    IF j = 0 THEN <<>>
    ELSE With(CaptureAt(s, prefix, suffix, j), LAMBDA match :
           <<match.text>> \o Captures(s, prefix, suffix, match.end)))

extractComponentUsages(content) ==
  With(Captures(content, "GetComponent<", ">", 1)
       \o Captures(content, "AddComponent<", ">", 1)
       \o Captures(content, "RequireComponent(typeof(", "))", 1), LAMBDA usages :
    Dedup(usages))

\* a filter that takes every method whose name starts with a lifecycle name
IsUnityMessagePrefix(m) ==
  \E i \in 1..Len(UNITY_MESSAGES) : At(m.name, 1, UNITY_MESSAGES[i])

IsUnityMessageMethod(m) == Includes(UNITY_MESSAGES, m.name)

MethodName(m) == m.name

\* no step of parse throws on a string, so the catch branch is never taken
CSharpParser_parse(content, filePath) ==
  With(extractClassName(content), LAMBDA className :
  With(extractMethods(content), LAMBDA methods :
    [namespace |-> extractNamespace(content),
     class_name |-> IF className # Null THEN className ELSE "",
     base_types |-> extractBaseTypes(content),
     methods |-> methods,
     fields |-> extractFields(content),
     unity_messages |-> MapSeq(SelectSeq(methods, IsUnityMessageMethod), MethodName),
     component_usages |-> extractComponentUsages(content)]))

(***************************************************************************)
(* UnityYAMLParser                                                         *)
(***************************************************************************)
\* does pat occur in s at position i, letter case aside (the i flag)
AtI(s, i, pat) ==
  /\ i >= 1
  /\ i + Len(pat) - 1 <= Len(s)
  /\ ToLowerCase(SubSeq(s, i, i + Len(pat) - 1)) = ToLowerCase(pat)

\* /---\s*!u!\d+\s*&(\d+)\s*GameObject:\s*m_Name:\s*(\w+)/ anchored at j
GameObjectAt(s, j) ==
  IF ~At(s, j, "---") THEN None ELSE
  With(RunEnd(s, j + 3, SpaceChars), LAMBDA a :
  IF ~At(s, a, "!u!") THEN None ELSE
  With(RunEnd(s, a + 3, DigitChars), LAMBDA b :
  IF b = a + 3 THEN None ELSE
  With(RunEnd(s, b, SpaceChars), LAMBDA c :
  IF ~At(s, c, "&") THEN None ELSE
  With(RunEnd(s, c + 1, DigitChars), LAMBDA d :
  IF d = c + 1 THEN None ELSE
  With(RunEnd(s, d, SpaceChars), LAMBDA e :
  IF ~At(s, e, "GameObject:") THEN None ELSE
  With(RunEnd(s, e + Len("GameObject:"), SpaceChars), LAMBDA f :
  IF ~At(s, f, "m_Name:") THEN None ELSE
  With(RunEnd(s, f + Len("m_Name:"), SpaceChars), LAMBDA g :
  With(RunEnd(s, g, WordChars), LAMBDA h :
  IF h = g THEN None
  ELSE [name |-> SubSeq(s, g, h - 1), fileID |-> SubSeq(s, c + 1, d - 1), end |-> h]))))))))

RECURSIVE GameObjectsFrom(_, _)
GameObjectsFrom(content, lastIndex) ==
  With(First(lastIndex, Len(content), LAMBDA k : GameObjectAt(content, k) # None), LAMBDA j :
  IF j = 0 THEN <<>> ELSE
  With(GameObjectAt(content, j), LAMBDA match :
  <<[name |-> match.name, fileID |-> match.fileID, components |-> <<>>, children |-> <<>>]>>
  \o GameObjectsFrom(content, match.end)))

extractGameObjects(content) == GameObjectsFrom(content, 1)

\* /label.*?guid:\s*([a-f0-9]+)/i anchored at j: the lazy .*? stops at the first
\* guid: on the label's line that a hexadecimal run follows
GuidAfterLabelAt(s, label, j) ==
  IF AtI(s, j, label)
  THEN With(RunEndNotLineBreak(s, j + Len(label)), LAMBDA lineEnd :
       With(First(j + Len(label), lineEnd, LAMBDA q : GuidAt(s, q) # Null), LAMBDA k :
         IF k = 0 THEN None
         ELSE [guid |-> GuidAt(s, k),
               end |-> RunEnd(s, RunEnd(s, k + 5, SpaceChars), HexCharsI)]))
  ELSE None

RECURSIVE GuidsAfterLabel(_, _, _)
GuidsAfterLabel(content, label, lastIndex) ==
  With(First(lastIndex, Len(content),
             LAMBDA k : GuidAfterLabelAt(content, label, k) # None), LAMBDA j :
    IF j = 0 THEN <<>>
    ELSE With(GuidAfterLabelAt(content, label, j), LAMBDA match :
           <<match.guid>> \o GuidsAfterLabel(content, label, match.end)))

extractScriptReferences(content) ==
  With(GuidsAfterLabel(content, "m_Script:", 1), LAMBDA guids : Dedup(guids))

extractPrefabReferences(content) ==
  With(GuidsAfterLabel(content, "m_PrefabAsset:", 1), LAMBDA guids : Dedup(guids))

\* no step of parseScene throws on a string, so the catch branch is never taken
UnityYAMLParser_parseScene(content) ==
  [scene_name |-> "",
   game_objects |-> extractGameObjects(content),
   script_references |-> extractScriptReferences(content),
   prefab_references |-> extractPrefabReferences(content)]

UnityYAMLParser_parsePrefab(content) ==
  With(extractGameObjects(content), LAMBDA gameObjects :
  With(IF Len(gameObjects) > 0 THEN gameObjects[1]
       ELSE [name |-> "Root", fileID |-> "0", components |-> <<>>, children |-> <<>>],
       LAMBDA rootObject :
    [prefab_name |-> rootObject.name,
     root_object |-> rootObject,
     components |-> rootObject.components,
     script_references |-> extractScriptReferences(content),
     nested_prefab_references |-> extractPrefabReferences(content)]))

(***************************************************************************)
(* FileHasher                                                              *)
(***************************************************************************)
\* SHA-256 is carried uninterpreted: the digest names the text it was taken of,
\* so equal digests mean equal texts
FileHasher_hash(content) == [sha256 |-> content]

(***************************************************************************)
(* UnityProjectAnalyzer: pure parts                                        *)
(***************************************************************************)
\* filePath.split('.').pop()?.toLowerCase()
ExtensionOf(filePath) == ToLowerCase(SplitPop(filePath, "."))

TextureExtensions == <<"png", "jpg", "jpeg", "tga">>

AssetTypeOf(extension) ==
  IF extension = "cs" THEN "cs_script"
  ELSE IF extension = "unity" THEN "scene"
  ELSE IF extension = "prefab" THEN "prefab"
  ELSE IF extension = "shader" THEN "shader"
  ELSE IF extension = "mat" THEN "material"
  ELSE IF Includes(TextureExtensions, extension) THEN "texture"
  ELSE "other"

\* the asset path parseMeta derives from the meta file's path
AssetPathOf(filePath) == Replace(filePath, ".meta", "")

\* faulty variant: a guid already present keeps its first asset
MapSetKeepFirst(map, value) ==
  IF \E i \in 1..Len(map) : map[i].guid = value.guid THEN map ELSE Append(map, value)

\* Map.prototype.set on guidToAssetMap, kept as the sequence of its values in
\* insertion order (each value's guid is its key): an existing key keeps its place
MapSet(map, value) ==
  IF \E i \in 1..Len(map) : map[i].guid = value.guid
  THEN [i \in 1..Len(map) |-> IF map[i].guid = value.guid THEN value ELSE map[i]]
  ELSE Append(map, value)

\* what parseMeta works out of a meta file whose text holds a guid: every
\* field of the asset but its id and project
AssetFields(filePath, content) ==
  With(MetaFileParser_parse(content), LAMBDA metaData :
  With(AssetPathOf(filePath), LAMBDA assetPath :
    [asset_path |-> assetPath,
     asset_type |-> AssetTypeOf(ExtensionOf(assetPath)),
     guid |-> metaData.guid,
     file_hash |-> FileHasher_hash(content),
     parse_metadata |-> [fileFormatVersion |-> metaData.fileFormatVersion]]))

\* the asset parseMeta registers once the hash has resolved
NewAsset(id, projectId, fields) ==
  [id |-> id,
   project_id |-> projectId,
   asset_path |-> fields.asset_path,
   asset_type |-> fields.asset_type,
   guid |-> fields.guid,
   file_hash |-> fields.file_hash,
   parse_metadata |-> fields.parse_metadata]

\* faulty variant: a path no asset carries resolves to the first asset
findAssetByPathOrFirst(map, path) ==
  With(First(1, Len(map), LAMBDA k : map[k].asset_path = path), LAMBDA i :
    IF i # 0 THEN map[i] ELSE IF Len(map) > 0 THEN map[1] ELSE None)

findAssetByPath(map, path) ==
  With(First(1, Len(map), LAMBDA k : map[k].asset_path = path), LAMBDA i :
    IF i = 0 THEN None ELSE map[i])

\* filePath.split('/').pop()?.replace(ext, '') || fallback
BaseNameWithout(filePath, ext, fallback) ==
  With(SplitPop(filePath, "/"), LAMBDA base :
  With(Replace(base, ext, ""), LAMBDA name :
    IF name = "" THEN fallback ELSE name))

\* faulty variant: the script points at itself instead of its asset
NewScriptOwnId(id, asset, scriptData) ==
  [id |-> id,
   asset_id |-> id,
   namespace |-> scriptData.namespace,
   class_name |-> scriptData.class_name,
   base_types |-> scriptData.base_types,
   methods |-> scriptData.methods,
   fields |-> scriptData.fields,
   unity_messages |-> scriptData.unity_messages,
   component_usages |-> scriptData.component_usages]

NewScript(id, asset, scriptData) ==
  [id |-> id,
   asset_id |-> asset.id,
   namespace |-> scriptData.namespace,
   class_name |-> scriptData.class_name,
   base_types |-> scriptData.base_types,
   methods |-> scriptData.methods,
   fields |-> scriptData.fields,
   unity_messages |-> scriptData.unity_messages,
   component_usages |-> scriptData.component_usages]

NewScene(id, asset, filePath, sceneData) ==
  [id |-> id,
   asset_id |-> asset.id,
   scene_name |-> BaseNameWithout(filePath, ".unity", "Scene"),
   game_objects |-> sceneData.game_objects,
   script_references |-> sceneData.script_references,
   prefab_references |-> sceneData.prefab_references]

NewPrefab(id, asset, filePath, prefabData) ==
  [id |-> id,
   asset_id |-> asset.id,
   prefab_name |-> BaseNameWithout(filePath, ".prefab", "Prefab"),
   root_object |-> prefabData.root_object,
   components |-> prefabData.components,
   script_references |-> prefabData.script_references,
   nested_prefab_references |-> prefabData.nested_prefab_references]

\* faulty variant: the assets registered so far are returned, ids included
analyzeProjectFromRegistry(self) ==
  [assets |-> self.guidToAssetMap, scripts |-> <<>>, scenes |-> <<>>, prefabs |-> <<>>,
   dependencies |-> <<>>]

\* analyzeProject on the analyzer `self`: five arrays it creates and never fills
analyzeProject(self) ==
  [assets |-> <<>>, scripts |-> <<>>, scenes |-> <<>>, prefabs |-> <<>>, dependencies |-> <<>>]

GraphNode(asset) ==
  [guid |-> asset.guid,
   name |-> SplitPop(asset.asset_path, "/"),
   type |-> asset.asset_type,
   path |-> asset.asset_path]

GraphEdge(dep) ==
  [source |-> dep.source_guid, target |-> dep.target_guid, type |-> dep.dependency_type]

\* faulty variant: an edge is emitted only when its target is a known asset
buildDependencyGraphResolved(structure) ==
  [nodes |-> MapSeq(structure.assets, GraphNode),
   edges |-> MapSeq(SelectSeq(structure.dependencies,
                              LAMBDA d : \E i \in 1..Len(structure.assets) :
                                           structure.assets[i].guid = d.target_guid),
                    GraphEdge)]

buildDependencyGraph(structure) ==
  [nodes |-> MapSeq(structure.assets, GraphNode),
   edges |-> MapSeq(structure.dependencies, GraphEdge)]

\* a category test that looks for ScriptableObject first
ScriptCategoryScriptableFirst(script) ==
  IF Includes(script.base_types, "ScriptableObject") THEN "ScriptableObject"
  ELSE IF Includes(script.base_types, "MonoBehaviour") THEN "MonoBehaviour"
  ELSE "Other"

\* a category test by substring of a base type entry
ScriptCategorySubstring(script) ==
  IF \E i \in 1..Len(script.base_types) :
       IndexFrom(script.base_types[i], "MonoBehaviour", 1) # 0 THEN "MonoBehaviour"
  ELSE IF \E i \in 1..Len(script.base_types) :
            IndexFrom(script.base_types[i], "ScriptableObject", 1) # 0 THEN "ScriptableObject"
  ELSE "Other"

ScriptCategory(script) ==
  IF Includes(script.base_types, "MonoBehaviour") THEN "MonoBehaviour"
  ELSE IF Includes(script.base_types, "ScriptableObject") THEN "ScriptableObject"
  ELSE "Other"

\* scriptCategories: a key exists only for a category that was counted
ScriptCategories(scripts) ==
  [c \in {ScriptCategory(scripts[i]) : i \in 1..Len(scripts)} |->
     Cardinality({i \in 1..Len(scripts) : ScriptCategory(scripts[i]) = c})]

\* referenceCounts after the first n steps of the forEach: the Map's entries in
\* insertion order
RECURSIVE ReferenceCountsUpTo(_, _)
ReferenceCountsUpTo(dependencies, n) ==
  IF n = 0 THEN <<>>
  ELSE With(ReferenceCountsUpTo(dependencies, n - 1), LAMBDA counts :
       With(dependencies[n].target_guid, LAMBDA target :
         IF \E i \in 1..Len(counts) : counts[i].guid = target
         THEN [i \in 1..Len(counts) |->
                 IF counts[i].guid = target
                 THEN [guid |-> target, count |-> counts[i].count + 1]
                 ELSE counts[i]]
         ELSE Append(counts, [guid |-> target, count |-> 1])))

ReferenceCounts(dependencies) == ReferenceCountsUpTo(dependencies, Len(dependencies))

\* faulty variant: among equal counts the later entry comes first
RECURSIVE SortTiesReversedUpTo(_, _)
SortTiesReversedUpTo(entries, n) ==
  IF n = 0 THEN <<>>
  ELSE With(SortTiesReversedUpTo(entries, n - 1), LAMBDA sorted :
       With(Cardinality({i \in 1..Len(sorted) : sorted[i].count > entries[n].count}), LAMBDA k :
         SubSeq(sorted, 1, k) \o <<entries[n]>> \o SubSeq(sorted, k + 1, Len(sorted))))

SortTiesReversed(entries) == SortTiesReversedUpTo(entries, Len(entries))

\* Array.prototype.sort((a, b) => b[1] - a[1]): a stable sort by falling count,
\* here of the first n entries
RECURSIVE SortByCountDescUpTo(_, _)
SortByCountDescUpTo(entries, n) ==
  IF n = 0 THEN <<>>
  ELSE With(SortByCountDescUpTo(entries, n - 1), LAMBDA sorted :
       With(Cardinality({i \in 1..Len(sorted) : sorted[i].count >= entries[n].count}), LAMBDA k :
         SubSeq(sorted, 1, k) \o <<entries[n]>> \o SubSeq(sorted, k + 1, Len(sorted))))

SortByCountDesc(entries) == SortByCountDescUpTo(entries, Len(entries))

MostReferencedLimit == 10

\* Array.prototype.slice(0, n)
Slice0(arr, n) == SubSeq(arr, 1, IF Len(arr) < n THEN Len(arr) ELSE n)

\* structure.assets.find(a => a.guid === guid)?.asset_path.split('/').pop() || 'Unknown'
AssetNameOf(assets, guid) ==
  With(First(1, Len(assets), LAMBDA k : assets[k].guid = guid), LAMBDA i :
  With(IF i = 0 THEN "" ELSE SplitPop(assets[i].asset_path, "/"), LAMBDA name :
    IF name = "" THEN "Unknown" ELSE name))

MostReferenced(structure) ==
  With(ReferenceCounts(structure.dependencies), LAMBDA counts :
  With(SortByCountDesc(counts), LAMBDA sorted :
  With(Slice0(sorted, MostReferencedLimit), LAMBDA top :
    [i \in 1..Len(top) |->
       [guid |-> top[i].guid,
        name |-> AssetNameOf(structure.assets, top[i].guid),
        reference_count |-> top[i].count]])))

\* a dfs without the visited test, followed until the depth has passed twice the
\* number of dependency records
RECURSIVE DfsUnguarded(_, _, _, _)
RECURSIVE DfsUnguardedEach(_, _, _, _, _)
DfsUnguarded(structure, guid, depth, st) ==
  IF depth > 2 * Len(structure.dependencies) + 1 THEN st
  ELSE With(SelectSeq(structure.dependencies, LAMBDA d : d.source_guid = guid), LAMBDA deps :
       With([visited |-> st.visited \cup {guid},
             maxDepth |-> IF depth > st.maxDepth THEN depth ELSE st.maxDepth,
             entered |-> Append(st.entered, guid)], LAMBDA entered :
         DfsUnguardedEach(structure, deps, 1, depth + 1, entered)))

DfsUnguardedEach(structure, deps, i, depth, st) ==
  IF i > Len(deps) THEN st
  ELSE With(DfsUnguarded(structure, deps[i].target_guid, depth, st), LAMBDA after :
         DfsUnguardedEach(structure, deps, i + 1, depth, after))

\* dfs of calculateDependencyDepth; st carries the closure's visited and maxDepth,
\* and the guids in the order in which the body of dfs was entered for them
RECURSIVE Dfs(_, _, _, _)
RECURSIVE DfsEach(_, _, _, _, _)
Dfs(structure, guid, depth, st) ==
  IF guid \in st.visited THEN st
  ELSE With(SelectSeq(structure.dependencies, LAMBDA d : d.source_guid = guid), LAMBDA deps :
       With([visited |-> st.visited \cup {guid},
             maxDepth |-> IF depth > st.maxDepth THEN depth ELSE st.maxDepth,
             entered |-> Append(st.entered, guid)], LAMBDA entered :
         DfsEach(structure, deps, 1, depth + 1, entered)))

\* a forEach that takes the dependency records last to first
RECURSIVE DfsEachReversed(_, _, _, _, _)
DfsEachReversed(structure, deps, i, depth, st) ==
  IF i > Len(deps) THEN st
  ELSE With(Dfs(structure, deps[Len(deps) + 1 - i].target_guid, depth, st), LAMBDA after :
         DfsEachReversed(structure, deps, i + 1, depth, after))

DfsEach(structure, deps, i, depth, st) ==
  IF i > Len(deps) THEN st
  ELSE With(Dfs(structure, deps[i].target_guid, depth, st), LAMBDA after :
         DfsEach(structure, deps, i + 1, depth, after))

\* a traversal that starts from the first asset only
DfsAssetsFirstOnly(structure, i, st) ==
  IF i > Len(structure.assets) THEN st
  ELSE Dfs(structure, structure.assets[i].guid, 0, st)

\* a traversal that gives each root a visited set of its own
RECURSIVE DfsAssetsFresh(_, _, _)
DfsAssetsFresh(structure, i, st) ==
  IF i > Len(structure.assets) THEN st
  ELSE With(Dfs(structure, structure.assets[i].guid, 0, [st EXCEPT !.visited = {}]),
            LAMBDA after : DfsAssetsFresh(structure, i + 1, after))

RECURSIVE DfsAssets(_, _, _)
DfsAssets(structure, i, st) ==
  IF i > Len(structure.assets) THEN st
  ELSE With(Dfs(structure, structure.assets[i].guid, 0, st), LAMBDA after :
         DfsAssets(structure, i + 1, after))

DepthTraversal(structure) ==
  DfsAssets(structure, 1, [visited |-> {}, maxDepth |-> 0, entered |-> <<>>])

calculateDependencyDepth(structure) == DepthTraversal(structure).maxDepth

generateProjectSummary(structure) ==
  [total_scripts |-> Len(structure.scripts),
   total_scenes |-> Len(structure.scenes),
   total_prefabs |-> Len(structure.prefabs),
   total_assets |-> Len(structure.assets),
   script_categories |-> ScriptCategories(structure.scripts),
   most_referenced_assets |-> MostReferenced(structure),
   dependency_depth |-> calculateDependencyDepth(structure)]

(***************************************************************************)
(* DependencyGraphView.initializeGraph                                     *)
(***************************************************************************)
NodeRadius == 8

ViewNode(node) ==
  [id |-> node.guid, name |-> node.name, type |-> node.type, path |-> node.path,
   radius |-> NodeRadius]

\* new Map(newNodes.map(n => [n.id, n])).get(id): the last node carrying the id
NodeMapGet(newNodes, id) ==
  With(Last(1, Len(newNodes), LAMBDA k : newNodes[k].id = id), LAMBDA i :
    IF i = 0 THEN None ELSE newNodes[i])

\* faulty variant: an edge is kept as soon as its source resolves
ViewEdgeBySource(newNodes, edge) ==
  With(NodeMapGet(newNodes, edge.source), LAMBDA source :
  With(NodeMapGet(newNodes, edge.target), LAMBDA target :
    IF source # None
    THEN [source |-> source, target |-> target, type |-> edge.type]
    ELSE None))

ViewEdge(newNodes, edge) ==
  With(NodeMapGet(newNodes, edge.source), LAMBDA source :
  With(NodeMapGet(newNodes, edge.target), LAMBDA target :
    IF source # None /\ target # None
    THEN [source |-> source, target |-> target, type |-> edge.type]
    ELSE None))

IsEdge(e) == e # None

initializeGraph(graph) ==
  With(MapSeq(graph.nodes, ViewNode), LAMBDA newNodes :
  With([i \in 1..Len(graph.edges) |-> ViewEdge(newNodes, graph.edges[i])], LAMBDA resolved :
    [nodes |-> newNodes, edges |-> SelectSeq(resolved, IsEdge)]))

(***************************************************************************)
(* Inputs                                                                  *)
(***************************************************************************)
File(path, content) == [path |-> path, content |-> content]

PlayerControllerMeta == File("Assets/PlayerController.cs.meta", "fileFormatVersion: 2\nguid: abc123\n")
Level1Meta == File("Assets/Level1.unity.meta", "guid: def456")
PlayerControllerCs ==
  File("Assets/PlayerController.cs",
       "public class PlayerController : MonoBehaviour {\n [SerializeField] float moveSpeed;\n void Update() { }\n}")
Level1Unity ==
  File("Assets/Level1.unity",
       "--- !u!1 &7\nGameObject:\n m_Name: Player\n m_Script: {fileID: 11500000, guid: abc123, type: 3}\n")
\* a second meta file carrying PlayerController's guid
EnemyMeta == File("Assets/Enemy.prefab.meta", "guid: abc123")
EnemyPrefab == File("Assets/Enemy.prefab", "m_PrefabAsset: {fileID: 100100000, guid: def456, type: 3}")
\* malformed files of each supported kind
BrokenMeta == File("Assets/Broken.mat.meta", "fileFormatVersion: 2\n")
BrokenCs == File("Assets/PlayerController.cs", "// TODO")
BrokenUnity == File("Assets/Level1.unity", "%YAML 1.1")
Readme == File("README.md", "guid: 0a")

Files ==
  {PlayerControllerMeta, Level1Meta, PlayerControllerCs, Level1Unity, EnemyMeta, EnemyPrefab,
   BrokenMeta, BrokenCs, BrokenUnity, Readme}

ProjectArgs ==
  {[projectPath |-> "/projects/demo", projectId |-> "proj-1"],
   [projectPath |-> "", projectId |-> ""]}

\* the files of the end-to-end scenario
ScenarioFiles == {PlayerControllerMeta, Level1Meta, PlayerControllerCs, Level1Unity}

\* parseFile calls made on one analyzer, and parseMeta calls awaiting their hash
MaxCalls == 4
MaxPending == 1

\* meta texts put together from a version line, a label, a gap and a token, and
\* texts without a gap, without a token, and with a second guid line
MetaVersionLines ==
  {"", "fileFormatVersion: 3\n", "fileFormatVersion:x\n", "FileFormatVersion: 3\n"}
MetaLabels == {"guid:", "GuId:", "guid"}
MetaGaps == {" ", "\n  "}
MetaTokens == {"abc123", "ABCdef", "12g4", "xyz"}

MetaTexts ==
  {v \o l \o g \o t :
     v \in MetaVersionLines, l \in MetaLabels, g \in MetaGaps, t \in MetaTokens}
  \cup {"", "guid:", "guid:abc", "guid: \nguid: ff", "guid: xyz\nguid: ff",
        "fileFormatVersion: 12\nguid: 0a\nfileFormatVersion: 3\nguid: 0b"}

\* meta paths: plain ones, ".meta" earlier in the path, an upper-case suffix
MetaPaths ==
  {"Assets/Player.cs.meta", "Assets/Scenes/Level1.unity.meta", "Assets/Tex.PNG.meta",
   "Assets/a.meta.d/B.cs.meta", "Assets/x.meta.meta", "Assets/.metadata/Icon.png.meta",
   "Assets/Plain.meta", "Assets/Enemy.prefab.META"}

MetaInputs ==
  {File("Assets/Player.cs.meta", text) : text \in MetaTexts}
  \cup {File(path, "guid: abc123") : path \in MetaPaths}

\* scripts of one class with up to MaxMethods of these methods, in any order:
\* lifecycle methods, a lifecycle name in lower case, a name that starts with a
\* lifecycle name, and a method of another name
MaxMethods == 2

MethodLines ==
  {"void Update(){}\n", "void Start(){}\n", "void update(){}\n", "int UpdateScore(){}\n",
   "void Jump(int h){}\n"}

RECURSIVE Concat(_, _)
Concat(lines, n) == IF n = 0 THEN "" ELSE Concat(lines, n - 1) \o lines[n]

ScriptMeta == File("Assets/C.cs.meta", "guid: c0de")

ScriptInputs ==
  {File("Assets/C.cs", "class C {\n" \o Concat(lines, Len(lines)) \o "}") :
     lines \in UNION {[1..k -> MethodLines] : k \in 0..MaxMethods}}

\* what the parsers make of each input file, computed once
Dispatch == [f \in Files |-> ExtensionOf(f.path)]
MetaData == [f \in Files |-> MetaFileParser_parse(f.content)]
MetaAsset ==
  [f \in Files |-> IF MetaData[f] = None THEN None ELSE AssetFields(f.path, f.content)]
ScriptData == [f \in Files |-> CSharpParser_parse(f.content, f.path)]
SceneData == [f \in Files |-> UnityYAMLParser_parseScene(f.content)]
PrefabData == [f \in Files |-> UnityYAMLParser_parsePrefab(f.content)]

(***************************************************************************)
(* Structures handed to buildDependencyGraph and generateProjectSummary    *)
(***************************************************************************)
MaxAssets == 2
MaxDeps == 3
MaxScripts == 2
MaxWide == 11

\* the sequences over pool of length at most n
SeqsUpTo(pool, n) == UNION {[1..k -> pool] : k \in 0..n}

Asset(id, guid, path) ==
  NewAsset(id, "proj-1",
           [asset_path |-> path,
            asset_type |-> AssetTypeOf(ExtensionOf(path)),
            guid |-> guid,
            file_hash |-> FileHasher_hash("guid: " \o guid),
            parse_metadata |-> [fileFormatVersion |-> DefaultFileFormatVersion]])

\* two assets share a guid, one path has no directory, one ends in a slash
AssetPool ==
  {Asset(1, "a", "Assets/Player.cs"), Asset(2, "b", "Assets/Scenes/Level1.unity"),
   Asset(3, "a", "Enemy.prefab"), Asset(4, "c", "Assets/Dir/")}

Dependency(source, target, type) ==
  [source_guid |-> source, target_guid |-> target, dependency_type |-> type]

\* a cycle, a repeated pair, and a target no asset carries
DependencyPool ==
  {Dependency("a", "b", "script_usage"), Dependency("b", "a", "prefab_instance"),
   Dependency("a", "b", "prefab_instance"), Dependency("b", "x", "script_usage")}

\* n distinct targets, then one more reference to each of the last r of them
WideDependencies(n, r) ==
  [i \in 1..(n + r) |->
     Dependency("a", "t" \o ToString(IF i <= n THEN i ELSE 2 * n + 1 - i), "script_usage")]

Script(id, baseTypes) ==
  [id |-> id, asset_id |-> 1, namespace |-> "", class_name |-> "C", base_types |-> baseTypes,
   methods |-> <<>>, fields |-> <<>>, unity_messages |-> <<>>, component_usages |-> <<>>]

\* one script derives from both Unity bases, one names its base with the namespace
ScriptPool ==
  {Script(5, <<"MonoBehaviour">>), Script(6, <<"IDisposable", "ScriptableObject">>),
   Script(7, <<>>), Script(8, <<"ScriptableObject", "MonoBehaviour">>),
   Script(9, <<"UnityEngine.MonoBehaviour">>)}

Structure(assets, scripts, dependencies) ==
  [assets |-> assets, scripts |-> scripts, scenes |-> <<>>, prefabs |-> <<>>,
   dependencies |-> dependencies]

StructureInputs ==
  {Structure(assets, <<>>, deps) :
     assets \in SeqsUpTo(AssetPool, MaxAssets), deps \in SeqsUpTo(DependencyPool, MaxDeps)}
  \cup {Structure(<<Asset(1, "t1", "Assets/T1.mat")>>, <<>>, WideDependencies(n, r)) :
          n \in (MaxWide - 2)..MaxWide, r \in 0..2}
  \cup {Structure(<<>>, scripts, <<>>) : scripts \in SeqsUpTo(ScriptPool, MaxScripts)}

\* the structures whose dependency depth is computed: chains, a shortcut next to
\* a chain, a cycle through three guids, a self-reference, roots in any order
DepthAssetPool ==
  {Asset(1, "a", "Assets/A.prefab"), Asset(2, "b", "Assets/B.prefab"),
   Asset(3, "c", "Assets/C.cs")}

DepthDependencyPool ==
  {Dependency("a", "b", "prefab_instance"), Dependency("b", "c", "script_usage"),
   Dependency("a", "c", "script_usage"), Dependency("c", "a", "prefab_instance"),
   Dependency("b", "b", "prefab_instance")}

DepthInputs ==
  {Structure(assets, <<>>, deps) :
     assets \in SeqsUpTo(DepthAssetPool, MaxAssets),
     deps \in SeqsUpTo(DepthDependencyPool, MaxDeps)}

(***************************************************************************)
(* State                                                                   *)
(***************************************************************************)
VARIABLES
  projectPath,     \* UnityProjectAnalyzer.projectPath
  projectId,       \* UnityProjectAnalyzer.projectId
  guidToAssetMap,  \* UnityProjectAnalyzer.guidToAssetMap, values in insertion order
  pending,         \* parseMeta calls suspended at `await FileHasher.hash(content)`
  nextId,          \* the next value crypto.randomUUID() hands out
  nCalls,          \* parseFile calls made so far on this analyzer
  lastCall,        \* the file of the latest parseFile call
  lastResult,      \* what parseScript / parseScene / parsePrefab returned to it
  regLog,          \* the guidToAssetMap.set calls made, in order
  fed,             \* the files passed to parseFile
  structure,       \* the structure analyzeProject returned, or the caller's own
  graph,           \* the latest result of buildDependencyGraph
  summary,         \* the latest result of generateProjectSummary
  view,            \* DependencyGraphView's nodes and edges state
  prevRun,         \* the files and results of the analysis before this analyzer's
  hook,            \* useUnityAnalyzer's state and its analyzeProject calls in flight
  retry,           \* one withRetry call: its loop variables and its outcome
  engine,          \* one ExecutionEngine.executePlan call: its progress and its saves
  planner          \* a plan handed to ExecutionPlanner.optimizePlan and what it returned

analyzerVars == <<projectPath, projectId, guidToAssetMap, pending, nextId>>
callVars == <<nCalls, lastCall, lastResult, regLog, fed>>
resultVars == <<structure, graph, summary, view, prevRun>>
serviceVars == <<hook, retry, engine, planner>>
vars == <<projectPath, projectId, guidToAssetMap, pending, nextId, nCalls, lastCall,
          lastResult, regLog, fed, structure, graph, summary, view, prevRun,
          hook, retry, engine, planner>>

\* new UnityProjectAnalyzer(projectPath, projectId), before any call
Constructed(args) ==
  /\ projectPath = args.projectPath
  /\ projectId = args.projectId
  /\ guidToAssetMap = <<>>
  /\ pending = {}
  /\ nextId = 1
  /\ nCalls = 0
  /\ lastCall = None
  /\ lastResult = None
  /\ regLog = <<>>
  /\ fed = {}
  /\ graph = None
  /\ summary = None
  /\ view = [nodes |-> <<>>, edges |-> <<>>]
  /\ prevRun = None
  /\ hook = None
  /\ retry = None
  /\ engine = None
  /\ planner = None

Init ==
  /\ \E args \in ProjectArgs : Constructed(args)
  /\ structure = None

\* a caller that holds a structure of its own
InitStructure ==
  /\ Constructed([projectPath |-> "/projects/demo", projectId |-> "proj-1"])
  /\ structure \in StructureInputs

\* a caller that asks for the summary of a structure of its own
InitDepth ==
  /\ Constructed([projectPath |-> "/projects/demo", projectId |-> "proj-1"])
  /\ structure \in DepthInputs

(***************************************************************************)
(* Operations                                                              *)
(***************************************************************************)
\* parseFile's extension, MetaFileParser.parse's result and parseMeta's asset
\* for a file, from the tables where they hold it
DispatchOf(f) == IF f \in Files THEN Dispatch[f] ELSE ExtensionOf(f.path)

ScriptDataOf(f) ==
  IF f \in Files THEN ScriptData[f] ELSE CSharpParser_parse(f.content, f.path)

MetaDataOf(f) == IF f \in Files THEN MetaData[f] ELSE MetaFileParser_parse(f.content)

MetaAssetOf(f) ==
  IF f \in Files THEN MetaAsset[f]
  ELSE IF MetaFileParser_parse(f.content) = None THEN None
  ELSE AssetFields(f.path, f.content)

Self == [projectPath |-> projectPath, projectId |-> projectId, guidToAssetMap |-> guidToAssetMap]

Called(f) ==
  /\ nCalls < MaxCalls
  /\ nCalls' = nCalls + 1
  /\ lastCall' = f
  /\ fed' = fed \cup {f}

\* a parseMeta that registers its asset within the call, without suspending
ParseMetaAtomic(f) ==
  /\ DispatchOf(f) = "meta"
  /\ Called(f)
  /\ IF MetaDataOf(f) # None
     THEN LET asset == NewAsset(nextId, projectId, MetaAssetOf(f))
          IN /\ guidToAssetMap' = MapSet(guidToAssetMap, asset)
             /\ regLog' = Append(regLog, [filePath |-> f.path, asset_path |-> asset.asset_path,
                                          guid |-> asset.guid, id |-> asset.id])
             /\ nextId' = nextId + 1
     ELSE UNCHANGED <<guidToAssetMap, regLog, nextId>>
  /\ lastResult' = None
  /\ UNCHANGED <<serviceVars, projectPath, projectId, pending, resultVars>>

\* parseFile on a .meta file, up to the await in parseMeta
ParseMeta(f) ==
  /\ DispatchOf(f) = "meta"
  /\ Called(f)
  /\ IF MetaDataOf(f) # None
     THEN /\ f \notin pending
          /\ Cardinality(pending) < MaxPending
          /\ pending' = pending \cup {f}
     ELSE pending' = pending
  /\ lastResult' = None
  /\ UNCHANGED <<serviceVars, projectPath, projectId, guidToAssetMap, nextId, regLog, resultVars>>

\* the hash of a suspended parseMeta resolves: the asset is built and registered
HashResolved(f) ==
  /\ f \in pending
  /\ LET asset == NewAsset(nextId, projectId, MetaAssetOf(f))
     IN /\ guidToAssetMap' = MapSet(guidToAssetMap, asset)
        /\ regLog' = Append(regLog, [filePath |-> f.path, asset_path |-> asset.asset_path,
                                     guid |-> asset.guid, id |-> asset.id])
  /\ nextId' = nextId + 1
  /\ pending' = pending \ {f}
  /\ UNCHANGED <<serviceVars, projectPath, projectId, nCalls, lastCall, lastResult, fed, resultVars>>

\* a record is built, with a fresh id, only when the path resolves to an asset
Returned(record) ==
  /\ lastResult' = record
  /\ nextId' = IF record = None THEN nextId ELSE nextId + 1
  /\ UNCHANGED <<serviceVars, projectPath, projectId, guidToAssetMap, pending, regLog, resultVars>>

ParseScript(f) ==
  /\ DispatchOf(f) = "cs"
  /\ Called(f)
  /\ LET scriptData == ScriptDataOf(f)
         asset == findAssetByPath(guidToAssetMap, f.path)
     IN Returned(IF scriptData = None \/ asset = None THEN None
                 ELSE NewScript(nextId, asset, scriptData))

ParseScene(f) ==
  /\ Dispatch[f] = "unity"
  /\ Called(f)
  /\ LET sceneData == SceneData[f]
         asset == findAssetByPath(guidToAssetMap, f.path)
     IN Returned(IF sceneData = None \/ asset = None THEN None
                 ELSE NewScene(nextId, asset, f.path, sceneData))

ParsePrefab(f) ==
  /\ Dispatch[f] = "prefab"
  /\ Called(f)
  /\ LET prefabData == PrefabData[f]
         asset == findAssetByPath(guidToAssetMap, f.path)
     IN Returned(IF prefabData = None \/ asset = None THEN None
                 ELSE NewPrefab(nextId, asset, f.path, prefabData))

\* a parseFile that hands a file of any other extension to parseMeta
ParseOtherAsMeta(f) ==
  /\ Dispatch[f] \notin {"meta", "cs", "unity", "prefab"}
  /\ Called(f)
  /\ IF MetaData[f] # None
     THEN /\ f \notin pending
          /\ Cardinality(pending) < MaxPending
          /\ pending' = pending \cup {f}
     ELSE pending' = pending
  /\ lastResult' = None
  /\ UNCHANGED <<serviceVars, projectPath, projectId, guidToAssetMap, nextId, regLog, resultVars>>

\* parseFile on any other extension: no case of the switch applies
ParseOther(f) ==
  /\ Dispatch[f] \notin {"meta", "cs", "unity", "prefab"}
  /\ Called(f)
  /\ Returned(None)

AnalyzeProject ==
  /\ structure' = analyzeProject(Self)
  /\ UNCHANGED <<serviceVars, analyzerVars, callVars, graph, summary, view, prevRun>>

BuildDependencyGraph ==
  /\ structure # None
  /\ graph' = buildDependencyGraph(structure)
  /\ UNCHANGED <<serviceVars, analyzerVars, callVars, structure, summary, view, prevRun>>

\* a summary that reorders the dependency records of the structure it is given
GenerateProjectSummaryInPlace ==
  /\ structure # None
  /\ summary' = generateProjectSummary(structure)
  /\ structure' =
       [structure EXCEPT !.dependencies =
          [i \in 1..Len(structure.dependencies) |->
             structure.dependencies[Len(structure.dependencies) + 1 - i]]]
  /\ UNCHANGED <<serviceVars, analyzerVars, callVars, graph, view, prevRun>>

GenerateProjectSummary ==
  /\ structure # None
  /\ summary' = generateProjectSummary(structure)
  /\ UNCHANGED <<serviceVars, analyzerVars, callVars, structure, graph, view, prevRun>>

\* the view's effect on a new graph; without a canvas it returns at once
InitializeGraph(canvas) ==
  /\ graph # None
  /\ view' = IF canvas THEN initializeGraph(graph) ELSE view
  /\ UNCHANGED <<serviceVars, analyzerVars, callVars, structure, graph, summary, prevRun>>

\* the analysis is run again: a new analyzer is constructed for the same project
\* once the first has delivered its graph and summary. What the first analyzer
\* was fed and delivered is kept for comparison; ids are never handed out twice.
NewAnalyzer ==
  /\ prevRun = None
  /\ pending = {}
  /\ graph # None
  /\ summary # None
  /\ prevRun' = [fed |-> fed, graph |-> graph, summary |-> summary]
  /\ guidToAssetMap' = <<>>
  /\ nCalls' = 0
  /\ lastCall' = None
  /\ lastResult' = None
  /\ regLog' = <<>>
  /\ fed' = {}
  /\ structure' = None
  /\ graph' = None
  /\ summary' = None
  /\ UNCHANGED <<serviceVars, projectPath, projectId, pending, nextId, view>>

Next ==
  \/ \E f \in Files : ParseMeta(f)
  \/ \E f \in Files : HashResolved(f)
  \/ \E f \in Files : ParseScript(f)
  \/ \E f \in Files : ParseScene(f)
  \/ \E f \in Files : ParsePrefab(f)
  \/ \E f \in Files : ParseOther(f)
  \/ AnalyzeProject
  \/ BuildDependencyGraph
  \/ GenerateProjectSummary
  \/ \E canvas \in BOOLEAN : InitializeGraph(canvas)

Spec == Init /\ [][Next]_vars

\* the analysis of the scenario's files, run twice
NextTwice ==
  \/ \E f \in ScenarioFiles : ParseMeta(f)
  \/ \E f \in ScenarioFiles : HashResolved(f)
  \/ \E f \in ScenarioFiles : ParseScript(f)
  \/ \E f \in ScenarioFiles : ParseScene(f)
  \/ AnalyzeProject
  \/ BuildDependencyGraph
  \/ GenerateProjectSummary
  \/ NewAnalyzer

InitTwice ==
  /\ Constructed([projectPath |-> "/projects/demo", projectId |-> "proj-1"])
  /\ structure = None

SpecTwice == InitTwice /\ [][NextTwice]_vars

\* the graph, the summary and the view of a structure the caller holds
NextStructure ==
  \/ BuildDependencyGraph
  \/ GenerateProjectSummary
  \/ \E canvas \in BOOLEAN : InitializeGraph(canvas)

SpecStructure == InitStructure /\ [][NextStructure]_vars

\* an analyzer's first parseFile call, made on a meta file
FirstParseMeta(f) ==
  /\ nCalls = 0
  /\ ParseMeta(f)

NextMeta ==
  \/ \E f \in MetaInputs : FirstParseMeta(f)
  \/ \E f \in MetaInputs : HashResolved(f)

SpecMeta == Init /\ [][NextMeta]_vars

\* an analyzer's one parseFile call on a script, before or after the script's
\* meta file is registered
OneParseScript(f) ==
  /\ fed \cap ScriptInputs = {}
  /\ ParseScript(f)

NextScript ==
  \/ FirstParseMeta(ScriptMeta)
  \/ HashResolved(ScriptMeta)
  \/ \E f \in ScriptInputs : OneParseScript(f)

InitScript ==
  /\ Constructed([projectPath |-> "/projects/demo", projectId |-> "proj-1"])
  /\ structure = None

SpecScript == InitScript /\ [][NextScript]_vars

\* the summary of a structure the caller holds
NextDepth == GenerateProjectSummary

SpecDepth == InitDepth /\ [][NextDepth]_vars

(***************************************************************************)
(* Properties                                                              *)
(***************************************************************************)
\* a guidToAssetMap.set call was made for an asset at this path
Registered(path) == \E k \in 1..Len(regLog) : regLog[k].asset_path = path

\* registration k has not been replaced by a later one for the same guid
Live(k) == \A j \in (k + 1)..Len(regLog) : regLog[j].guid # regLog[k].guid

\* the step is a parseFile call on a script, scene or prefab file
ContentCall == nCalls' = nCalls + 1 /\ Dispatch[lastCall'] \in {"cs", "unity", "prefab"}

Contains(s, pat) == IndexFrom(s, pat, 1) # 0

\* the scenario's run: both meta files are registered, first PlayerController's,
\* then each content file is parsed once and yields a record, Level1.unity last
ScenarioRun ==
  /\ fed = ScenarioFiles
  /\ nCalls = 4
  /\ pending = {}
  /\ Len(regLog) = 2
  /\ regLog[1].filePath = PlayerControllerMeta.path /\ regLog[1].id = 1
  /\ regLog[2].filePath = Level1Meta.path /\ regLog[2].id = 2
  /\ lastCall = Level1Unity
  /\ lastResult # None
  /\ lastResult.id = 4

\* C1: once the scenario's four files have been fed in order and analyzeProject
\* and buildDependencyGraph have been called, the structure holds 2 assets, the
\* PlayerController script with unity_messages <<"Update">> and the single
\* dependency def456 -> abc123 (script_usage), and the graph has 2 nodes and 1 edge.
C1_EndToEnd ==
  (ScenarioRun /\ structure # None /\ graph # None) =>
    /\ Len(structure.assets) = 2
    /\ \E i \in 1..Len(structure.scripts) :
         /\ structure.scripts[i].class_name = "PlayerController"
         /\ structure.scripts[i].unity_messages = <<"Update">>
    /\ structure.dependencies = <<Dependency("def456", "abc123", "script_usage")>>
    /\ Len(graph.nodes) = 2
    /\ Len(graph.edges) = 1

\* C2: no two assets of the registry share a guid, and for every guid that was
\* ever registered the registry holds exactly the asset of its last registration.
C2_GuidUniqueness ==
  /\ \A i, j \in 1..Len(guidToAssetMap) :
       guidToAssetMap[i].guid = guidToAssetMap[j].guid => i = j
  /\ Len(guidToAssetMap) = Cardinality({regLog[k].guid : k \in 1..Len(regLog)})
  /\ \A k \in 1..Len(regLog) :
       Live(k) => \E i \in 1..Len(guidToAssetMap) :
                    /\ guidToAssetMap[i].guid = regLog[k].guid
                    /\ guidToAssetMap[i].asset_path = regLog[k].asset_path
                    /\ guidToAssetMap[i].id = regLog[k].id

\* two meta files with one guid were registered and a single asset remains
C2_Witness ==
  /\ Len(guidToAssetMap) = 1
  /\ \E j, k \in 1..Len(regLog) :
       /\ j < k
       /\ regLog[j].guid = regLog[k].guid
       /\ regLog[j].asset_path # regLog[k].asset_path
       /\ guidToAssetMap[1].asset_path = regLog[k].asset_path

Malformed(f) ==
  CASE Dispatch[f] = "meta" -> ~Contains(ToLowerCase(f.content), "guid:")
    [] Dispatch[f] = "cs" -> ~Contains(f.content, "class")
    [] Dispatch[f] \in {"unity", "prefab"} ->
         ~Contains(f.content, "---") /\ ~Contains(ToLowerCase(f.content), "guid:")
    [] OTHER -> FALSE

MalformedFiles == {f \in Files : Malformed(f)}

\* C6: a parseFile call on a malformed file of a supported kind leaves the
\* registry, the registrations under way and the registrations made as they were.
C6_BadFileHarmless ==
  [][(nCalls' = nCalls + 1 /\ lastCall' \in MalformedFiles) =>
       /\ guidToAssetMap' = guidToAssetMap
       /\ pending' = pending
       /\ regLog' = regLog]_vars

\* a malformed meta file, script and scene were all fed to an analyzer that
\* holds an asset
C6_Witness ==
  /\ {BrokenMeta, BrokenCs, BrokenUnity} \subseteq fed
  /\ lastCall \in MalformedFiles
  /\ Len(guidToAssetMap) = 1

\* C7: without a project path, a project id or any content, analyzeProject
\* returns no structure.
C7_MissingInputRefused ==
  (projectPath = "" \/ projectId = "" \/ fed = {}) => structure = None

\* name is what follows the last "/" of path (all of path when it has none)
IsLastSegment(name, path) ==
  /\ ~Contains(name, "/")
  /\ \/ path = name
     \/ /\ Len(path) > Len(name)
        /\ SubSeq(path, Len(path) - Len(name), Len(path)) = "/" \o name

GuidsOf(nodes) == {nodes[i].guid : i \in 1..Len(nodes)}

\* C8: the graph has one node per asset, in asset order, carrying its guid, the
\* last segment of its path, its type and its path, and one edge per
\* dependency, in dependency order, whether or not its guids match a node.
C8_GraphShape ==
  graph # None =>
    /\ Len(graph.nodes) = Len(structure.assets)
    /\ \A i \in 1..Len(graph.nodes) :
         /\ graph.nodes[i].guid = structure.assets[i].guid
         /\ graph.nodes[i].type = structure.assets[i].asset_type
         /\ graph.nodes[i].path = structure.assets[i].asset_path
         /\ IsLastSegment(graph.nodes[i].name, structure.assets[i].asset_path)
    /\ Len(graph.edges) = Len(structure.dependencies)
    /\ \A i \in 1..Len(graph.edges) :
         /\ graph.edges[i].source = structure.dependencies[i].source_guid
         /\ graph.edges[i].target = structure.dependencies[i].target_guid
         /\ graph.edges[i].type = structure.dependencies[i].dependency_type

\* a graph of two nodes with an edge between nodes and an edge to no node
C8_Witness ==
  /\ graph # None
  /\ Len(graph.nodes) = 2
  /\ \E i \in 1..Len(graph.edges) : graph.edges[i].target \notin GuidsOf(graph.nodes)
  /\ \E i \in 1..Len(graph.edges) :
       {graph.edges[i].source, graph.edges[i].target} \subseteq GuidsOf(graph.nodes)

\* C9: whenever the view takes new nodes and edges, its nodes are the graph's,
\* both ends of each of its edges are among its nodes, and its edges are, in
\* order, exactly the graph's edges whose source and target guids both have a node.
C9_ViewEdgesResolved ==
  [][view' # view =>
       LET kept == SelectSeq(graph.edges,
                             LAMBDA e : {e.source, e.target} \subseteq GuidsOf(graph.nodes))
       IN /\ Len(view'.nodes) = Len(graph.nodes)
          /\ \A i \in 1..Len(view'.nodes) : view'.nodes[i].id = graph.nodes[i].guid
          /\ \A i \in 1..Len(view'.edges) :
               /\ view'.edges[i].source \in Range(view'.nodes)
               /\ view'.edges[i].target \in Range(view'.nodes)
          /\ Len(view'.edges) = Len(kept)
          /\ \A i \in 1..Len(kept) :
               /\ view'.edges[i].source.id = kept[i].source
               /\ view'.edges[i].target.id = kept[i].target
               /\ view'.edges[i].type = kept[i].type]_vars

\* the view shows some of the graph's edges and has dropped others
C9_Witness ==
  /\ graph # None
  /\ Len(view.nodes) = Len(graph.nodes)
  /\ Len(view.edges) > 0
  /\ Len(view.edges) < Len(graph.edges)

\* the number of dependency records that target guid, and the first of them
Inbound(guid) ==
  {i \in 1..Len(structure.dependencies) : structure.dependencies[i].target_guid = guid}

FirstInbound(guid) == CHOOSE i \in Inbound(guid) : \A j \in Inbound(guid) : i <= j

\* C10: every entry of most_referenced_assets counts the dependency records
\* that target its guid, at least one; no guid is listed twice; counts never
\* rise along the list; the list has at most 10 entries, and all targeted
\* guids when there are fewer; among equal counts the guid first targeted
\* earlier in the dependency list comes first.
C10_Ranking ==
  summary # None =>
    LET ranked == summary.most_referenced_assets
        targets == {structure.dependencies[i].target_guid :
                      i \in 1..Len(structure.dependencies)}
    IN /\ \A i \in 1..Len(ranked) :
            /\ ranked[i].reference_count = Cardinality(Inbound(ranked[i].guid))
            /\ ranked[i].reference_count > 0
       /\ \A i, j \in 1..Len(ranked) :
            i < j => /\ ranked[i].guid # ranked[j].guid
                     /\ ranked[i].reference_count >= ranked[j].reference_count
                     /\ ranked[i].reference_count = ranked[j].reference_count
                          => FirstInbound(ranked[i].guid) < FirstInbound(ranked[j].guid)
       /\ Len(ranked) <= 10
       /\ Cardinality(targets) <= 10 => Len(ranked) = Cardinality(targets)

\* more than 10 guids are targeted: 10 are listed, the one targeted twice
\* ahead of guids targeted once and earlier
C10_Witness ==
  /\ summary # None
  /\ Cardinality({structure.dependencies[i].target_guid :
                    i \in 1..Len(structure.dependencies)}) > 10
  /\ Len(summary.most_referenced_assets) = 10
  /\ summary.most_referenced_assets[1].reference_count = 2
  /\ summary.most_referenced_assets[2].reference_count = 1
  /\ summary.most_referenced_assets[2].guid = "t1"
\* the histogram's count for a category; a category never counted has no key
CountOf(categories, c) == IF c \in DOMAIN categories THEN categories[c] ELSE 0

Categories == {"MonoBehaviour", "ScriptableObject", "Other"}

\* C11: the histogram has no key but MonoBehaviour, ScriptableObject and Other,
\* its counts sum to total_scripts (each script is counted once, in one category),
\* and the MonoBehaviour count is the number of scripts whose base_types include
\* "MonoBehaviour", whatever else they include.
C11_Histogram ==
  summary # None =>
    /\ DOMAIN summary.script_categories \subseteq Categories
    /\ CountOf(summary.script_categories, "MonoBehaviour")
         + CountOf(summary.script_categories, "ScriptableObject")
         + CountOf(summary.script_categories, "Other") = summary.total_scripts
    /\ summary.total_scripts = Len(structure.scripts)
    /\ CountOf(summary.script_categories, "MonoBehaviour")
         = Cardinality({i \in 1..Len(structure.scripts) :
                          Includes(structure.scripts[i].base_types, "MonoBehaviour")})

\* a script deriving from both MonoBehaviour and ScriptableObject was counted,
\* next to a script of another category
C11_Witness ==
  /\ summary # None
  /\ Len(structure.scripts) = 2
  /\ \E i \in 1..2 :
       /\ Includes(structure.scripts[i].base_types, "MonoBehaviour")
       /\ Includes(structure.scripts[i].base_types, "ScriptableObject")
  /\ CountOf(summary.script_categories, "MonoBehaviour") = 1
  /\ CountOf(summary.script_categories, "ScriptableObject") = 0
  /\ CountOf(summary.script_categories, "Other") = 1

Max(S) == CHOOSE m \in S : \A k \in S : k <= m

\* the dependency records that leave guid for a guid not on the path so far
Onward(st, guid, onPath) ==
  {i \in 1..Len(st.dependencies) :
     /\ st.dependencies[i].source_guid = guid
     /\ st.dependencies[i].target_guid \notin onPath}

\* the length in edges of the longest simple path that continues from guid
RECURSIVE LongestFrom(_, _, _)
LongestFrom(st, guid, onPath) ==
  Max({0} \cup {1 + LongestFrom(st, st.dependencies[i].target_guid,
                                onPath \cup {st.dependencies[i].target_guid}) :
                  i \in Onward(st, guid, onPath)})

\* the length of the longest simple path that starts at an asset
LongestPath(st) ==
  Max({0} \cup {LongestFrom(st, st.assets[i].guid, {st.assets[i].guid}) :
                  i \in 1..Len(st.assets)})

\* the guids reached from the guids in S along at most n dependency records
RECURSIVE ReachableIn(_, _, _)
ReachableIn(st, S, n) ==
  IF n = 0 THEN S
  ELSE ReachableIn(st, S \cup {st.dependencies[i].target_guid :
                                 i \in {j \in 1..Len(st.dependencies) :
                                          st.dependencies[j].source_guid \in S}}, n - 1)

\* no dependency record's source is reached again from its target
Acyclic(st) ==
  \A i \in 1..Len(st.dependencies) :
    st.dependencies[i].source_guid
      \notin ReachableIn(st, {st.dependencies[i].target_guid}, Len(st.dependencies))

\* every guid is reached from the assets along one path only: no record targets
\* an asset's guid and no two records share a target
SinglePaths(st) ==
  /\ \A i \in 1..Len(st.dependencies), a \in 1..Len(st.assets) :
       st.dependencies[i].target_guid # st.assets[a].guid
  /\ \A i, j \in 1..Len(st.dependencies) :
       st.dependencies[i].target_guid = st.dependencies[j].target_guid => i = j

C13_CyclesTerminate ==
  summary # None =>
    /\ summary.dependency_depth \in Nat
    /\ summary.dependency_depth <= Len(structure.dependencies)

\* the summary of a structure in which a and c depend on each other and b on
\* itself, a and b being assets
C13_Witness ==
  /\ summary # None
  /\ ~Acyclic(structure)
  /\ \E i, j, k \in 1..Len(structure.dependencies) :
       /\ structure.dependencies[i] = Dependency("a", "c", "script_usage")
       /\ structure.dependencies[j] = Dependency("c", "a", "prefab_instance")
       /\ structure.dependencies[k] = Dependency("b", "b", "prefab_instance")
  /\ {structure.assets[i].guid : i \in 1..Len(structure.assets)} = {"a", "b"}
  /\ summary.dependency_depth = 1

\* the positions of s where the label begins, compared letter by letter
\* without regard to case
LabelsIn(s, label) ==
  {i \in 1..(Len(s) - Len(label) + 1) :
     \A k \in 1..Len(label) : LowerChar(Ch(s, i + k - 1)) = LowerChar(Ch(label, k))}

\* a token of characters of cls begins at j, with only white space between the
\* label's end at from and j
TokenAfter(s, from, j, cls) ==
  /\ j >= from
  /\ Ch(s, j) \in cls
  /\ \A k \in from..(j - 1) : Ch(s, k) \in SpaceChars

\* the pairs <<i, j>>: a label begins at i and is followed by a token at j
Labelled(s, labels, labelLen, cls) ==
  {p \in labels \X (1..Len(s)) : TokenAfter(s, p[1] + labelLen, p[2], cls)}

\* the token of the first labelled pair: the longest run of cls from its start
FirstToken(s, pairs, cls) ==
  With(CHOOSE p \in pairs : \A q \in pairs : p[1] <= q[1], LAMBDA p :
  With(CHOOSE e \in p[2]..Len(s) :
         /\ \A k \in p[2]..e : Ch(s, k) \in cls
         /\ e = Len(s) \/ Ch(s, e + 1) \notin cls, LAMBDA e :
    SubSeq(s, p[2], e)))

GuidTokens(s) == Labelled(s, LabelsIn(s, "guid:"), 5, HexCharsI)

\* the fileFormatVersion fields of s that declare a number; the label is
\* matched as written
DeclaredVersions(s) ==
  Labelled(s, {i \in 1..Len(s) : At(s, i, "fileFormatVersion:")}, 18, DigitChars)

\* C14: MetaFileParser.parse returns null exactly when its text has no guid:
\* label, in any case, followed by a hexadecimal token; otherwise its guid is the
\* first such token and its fileFormatVersion the number the text declares, or 2
\* when it declares none. parseMeta registers an asset with that guid and
\* version, and none for a text parse returns null for.
C14_MetaParse ==
  lastCall # None =>
    With(MetaDataOf(lastCall), LAMBDA metaData :
    With(GuidTokens(lastCall.content), LAMBDA tokens :
    With(DeclaredVersions(lastCall.content), LAMBDA versions :
      /\ metaData = None <=> tokens = {}
      /\ metaData = None => pending = {} /\ guidToAssetMap = <<>>
      /\ metaData # None =>
           /\ metaData.guid = FirstToken(lastCall.content, tokens, HexCharsI)
           /\ metaData.fileFormatVersion =
                IF versions = {} THEN 2
                ELSE ParseInt(FirstToken(lastCall.content, versions, DigitChars))
           /\ \A i \in 1..Len(guidToAssetMap) :
                /\ guidToAssetMap[i].guid = metaData.guid
                /\ guidToAssetMap[i].parse_metadata.fileFormatVersion
                     = metaData.fileFormatVersion)))

\* a text whose label is written GuId: and whose version field is written with
\* a capital F was parsed and its asset registered with version 2
C14_Witness ==
  /\ lastCall # None
  /\ lastCall.content = "FileFormatVersion: 3\nGuId:\n  ABCdef"
  /\ Len(guidToAssetMap) = 1
  /\ guidToAssetMap[1].guid = "ABCdef"
  /\ guidToAssetMap[1].parse_metadata.fileFormatVersion = 2

\* C15: for a script file whose text holds no class declaration CSharpParser.parse
\* returns null, and the parseFile call on it yields no Script record.
C15_NoClassNoScript ==
  (lastCall # None /\ Dispatch[lastCall] = "cs"
     /\ extractClassName(lastCall.content) = Null) =>
    /\ ScriptData[lastCall] = None
    /\ lastResult = None

\* C16: a prefab record's root_object is the first game object discovered in
\* the text; when there is none it is a placeholder named after the prefab file
\* without its extension, with fileID "0" and no components or children; and the
\* record's components are its root object's.
C16_PrefabRoot ==
  (lastCall # None /\ Dispatch[lastCall] = "prefab" /\ lastResult # None) =>
    With(extractGameObjects(lastCall.content), LAMBDA gameObjects :
      /\ lastResult.root_object =
           IF Len(gameObjects) > 0 THEN gameObjects[1]
           ELSE [name |-> BaseNameWithout(lastCall.path, ".prefab", "Prefab"),
                 fileID |-> "0", components |-> <<>>, children |-> <<>>]
      /\ lastResult.components = lastResult.root_object.components)

\* registration k is live and no file at its asset's path was passed to parseFile
Bare(k) == Live(k) /\ \A f \in fed : f.path # regLog[k].asset_path

\* C17: the structure analyzeProject returns holds every asset registered from a
\* meta file for which no content file was supplied, with no script, scene or
\* prefab record of that asset's id; and the graph built from a structure has a
\* node for each of its assets.
C17_BareAssetKept ==
  [][/\ (structure = None /\ structure' # None) =>
          \A k \in 1..Len(regLog) :
            Bare(k) =>
              /\ \E i \in 1..Len(structure'.assets) :
                   /\ structure'.assets[i].id = regLog[k].id
                   /\ structure'.assets[i].guid = regLog[k].guid
              /\ \A i \in 1..Len(structure'.scripts) :
                   structure'.scripts[i].asset_id # regLog[k].id
              /\ \A i \in 1..Len(structure'.scenes) :
                   structure'.scenes[i].asset_id # regLog[k].id
              /\ \A i \in 1..Len(structure'.prefabs) :
                   structure'.prefabs[i].asset_id # regLog[k].id
     /\ (graph = None /\ graph' # None) =>
          \A i \in 1..Len(structure.assets) :
            \E n \in 1..Len(graph'.nodes) : graph'.nodes[n].guid = structure.assets[i].guid
    ]_vars

\* the frames for the targets of guid's outgoing records, in dependency-list order
Frames(st, guid, depth) ==
  With(SelectSeq(st.dependencies, LAMBDA d : d.source_guid = guid), LAMBDA deps :
    [i \in 1..Len(deps) |-> [guid |-> deps[i].target_guid, depth |-> depth]])

\* the reference traversal from one root, run on a stack of frames still to be
\* entered: found holds each visited guid with the depth of its first visit
RECURSIVE Traverse(_, _, _)
Traverse(st, stack, found) ==
  IF stack = <<>> THEN found
  ELSE With(Head(stack), LAMBDA top :
         IF \E p \in found : p[1] = top.guid
         THEN Traverse(st, Tail(stack), found)
         ELSE Traverse(st, Frames(st, top.guid, top.depth + 1) \o Tail(stack),
                       found \cup {<<top.guid, top.depth>>}))

\* one traversal from depth 0 for each asset, in assets order, not yet visited
RECURSIVE TraverseAssets(_, _, _)
TraverseAssets(st, i, found) ==
  IF i > Len(st.assets) THEN found
  ELSE With(st.assets[i].guid, LAMBDA guid :
         TraverseAssets(st, i + 1,
                        IF \E p \in found : p[1] = guid THEN found
                        ELSE Traverse(st, <<[guid |-> guid, depth |-> 0]>>, found)))

\* the greatest depth at which a guid was first visited
ReferenceDepth(st) == Max({0} \cup {p[2] : p \in TraverseAssets(st, 1, {})})

\* C18: dependency_depth is the greatest depth of a first visit in the reference
\* traversal: one visited set for all roots, a depth-first search from depth 0
\* for each asset, in assets order, not yet visited, a guid marked visited
\* before the targets of its outgoing records are entered in dependency-list
\* order at depth + 1.
C18_ReferenceTraversal ==
  summary # None => summary.dependency_depth = ReferenceDepth(structure)

\* c is reached from the one asset a both directly and through b, and counts
\* with the depth 1 of its first discovery
C18_Witness ==
  /\ summary # None
  /\ Len(structure.assets) = 1
  /\ structure.dependencies =
       <<Dependency("a", "c", "script_usage"), Dependency("a", "b", "prefab_instance"),
         Dependency("b", "c", "script_usage")>>
  /\ LongestPath(structure) = 2
  /\ summary.dependency_depth = 1

\* the scripts one of whose base type entries has name as a substring
Mentioning(scripts, name) ==
  {i \in 1..Len(scripts) :
     \E k \in 1..Len(scripts[i].base_types) : Contains(scripts[i].base_types[k], name)}

\* the scripts one of whose base type entries is name
Naming(scripts, name) ==
  {i \in 1..Len(scripts) :
     \E k \in 1..Len(scripts[i].base_types) : scripts[i].base_types[k] = name}

\* the histogram counts mono under MonoBehaviour, of the other scripts those of
\* so under ScriptableObject, and the rest under Other
CountedAs(mono, so) ==
  /\ CountOf(summary.script_categories, "MonoBehaviour") = Cardinality(mono)
  /\ CountOf(summary.script_categories, "ScriptableObject") = Cardinality(so \ mono)
  /\ CountOf(summary.script_categories, "Other")
       = Len(structure.scripts) - Cardinality(mono \cup so)

\* C19 as stated: a script is counted as MonoBehaviour when one of its base type
\* entries contains "MonoBehaviour" as a substring, otherwise as ScriptableObject
\* when one contains "ScriptableObject", otherwise as Other.
C19_BySubstring ==
  summary # None =>
    CountedAs(Mentioning(structure.scripts, "MonoBehaviour"),
              Mentioning(structure.scripts, "ScriptableObject"))

\* C19 as the code has it: a script is counted as MonoBehaviour when one of its
\* base type entries is "MonoBehaviour", otherwise as ScriptableObject when one
\* is "ScriptableObject", otherwise as Other.
C19_ByEntry ==
  summary # None =>
    CountedAs(Naming(structure.scripts, "MonoBehaviour"),
              Naming(structure.scripts, "ScriptableObject"))

\* a script whose only base type is UnityEngine.MonoBehaviour was counted under
\* Other, next to a script whose base type is MonoBehaviour
C19_Witness ==
  /\ summary # None
  /\ Len(structure.scripts) = 2
  /\ structure.scripts[1].base_types = <<"UnityEngine.MonoBehaviour">>
  /\ structure.scripts[2].base_types = <<"MonoBehaviour">>
  /\ CountOf(summary.script_categories, "MonoBehaviour") = 1
  /\ CountOf(summary.script_categories, "Other") = 1

\* filePath without its last five characters, the suffix ".meta"
WithoutSuffix(filePath) == SubSeq(filePath, 1, Len(filePath) - 5)

\* C20: the asset registered for a meta file whose path ends in ".meta" has that
\* path without the suffix as its asset_path, wherever else ".meta" occurs in
\* the path, and the asset type of that path's extension.
C20_SuffixRemoved ==
  \A k \in 1..Len(regLog) :
    At(regLog[k].filePath, Len(regLog[k].filePath) - 4, ".meta") =>
      /\ regLog[k].asset_path = WithoutSuffix(regLog[k].filePath)
      /\ \A i \in 1..Len(guidToAssetMap) :
           guidToAssetMap[i].id = regLog[k].id =>
             guidToAssetMap[i].asset_type
               = AssetTypeOf(ExtensionOf(WithoutSuffix(regLog[k].filePath)))

\* the 13 names of Unity's lifecycle methods
LifecycleNames ==
  {"Awake", "Start", "Update", "FixedUpdate", "LateUpdate", "OnEnable", "OnDisable",
   "OnDestroy", "OnApplicationQuit", "OnCollisionEnter", "OnCollisionExit",
   "OnTriggerEnter", "OnTriggerExit"}

\* the names of the flagged methods among the first n, in method order
RECURSIVE FlaggedNames(_, _)
FlaggedNames(methods, n) ==
  IF n = 0 THEN <<>>
  ELSE IF methods[n].isUnityMessage
       THEN Append(FlaggedNames(methods, n - 1), methods[n].name)
       ELSE FlaggedNames(methods, n - 1)

\* C21: in what CSharpParser.parse makes of a script, unity_messages is the
\* sequence of the names of the methods flagged isUnityMessage, in method order;
\* a method is flagged exactly when its name is one of the 13 lifecycle names;
\* no other name occurs in unity_messages; and the Script record built from it
\* carries the same methods and unity_messages.
C21_UnityMessages ==
  (lastCall # None /\ DispatchOf(lastCall) = "cs") =>
    With(ScriptDataOf(lastCall), LAMBDA data :
      /\ data.unity_messages = FlaggedNames(data.methods, Len(data.methods))
      /\ \A i \in 1..Len(data.methods) :
           data.methods[i].isUnityMessage <=> data.methods[i].name \in LifecycleNames
      /\ \A k \in 1..Len(data.unity_messages) : data.unity_messages[k] \in LifecycleNames
      /\ Cardinality(LifecycleNames) = 13
      /\ lastResult # None =>
           /\ lastResult.methods = data.methods
           /\ lastResult.unity_messages = data.unity_messages)

\* a script with the methods UpdateScore and Update gave a record whose
\* unity_messages hold Update only
C21_Witness ==
  /\ lastCall # None
  /\ DispatchOf(lastCall) = "cs"
  /\ lastResult # None
  /\ Len(lastResult.methods) = 2
  /\ lastResult.methods[1].name = "UpdateScore"
  /\ ~lastResult.methods[1].isUnityMessage
  /\ lastResult.methods[2].name = "Update"
  /\ lastResult.methods[2].isUnityMessage
  /\ lastResult.unity_messages = <<"Update">>

\* C22: a call of buildDependencyGraph or generateProjectSummary leaves the
\* structure it is given and the analyzer's registry as they were, and a repeated
\* call, in whatever order, returns the graph and the summary returned before.
C22_UpstreamUnchanged ==
  [][/\ structure' = structure
     /\ guidToAssetMap' = guidToAssetMap
     /\ graph # None => graph' = graph
     /\ summary # None => summary' = summary]_vars

\* both were called on a structure whose ranking puts another guid first than
\* its dependency records do, and the records are in their order still
C22_Witness ==
  /\ graph # None
  /\ summary # None
  /\ Len(structure.dependencies) = 3
  /\ summary.most_referenced_assets[1].guid # structure.dependencies[1].target_guid
  /\ \A i \in 1..3 : graph.edges[i].target = structure.dependencies[i].target_guid

\* C23: a registered asset's file_hash is the digest of the content of the asset
\* file, the file at its asset_path, whenever that file was passed to parseFile;
\* so a change of the asset file alone changes the hash.
C23_HashOfAssetContent ==
  \A i \in 1..Len(guidToAssetMap) :
    \A f \in fed :
      f.path = guidToAssetMap[i].asset_path =>
        guidToAssetMap[i].file_hash = FileHasher_hash(f.content)

\* a parseMeta call for the asset at path is suspended at its hash
PendingFor(path) == \E m \in pending : AssetPathOf(m.path) = path

\* C24: a parseFile call does not change the registry before it suspends; the
\* registry changes only when a suspended parseMeta call's hash resolves; and a
\* content file parsed while its meta file's call is still suspended, the
\* registry holding no asset for its path, yields no record.
C24_RegistrationNotAtomic ==
  [][/\ nCalls' = nCalls + 1 => guidToAssetMap' = guidToAssetMap
     /\ guidToAssetMap' # guidToAssetMap => \E m \in pending : m \notin pending'
     /\ (/\ ContentCall
         /\ PendingFor(lastCall'.path)
         /\ \A i \in 1..Len(guidToAssetMap) : guidToAssetMap[i].asset_path # lastCall'.path)
          => lastResult' = None]_vars

\* the script was parsed while its meta file's call was suspended, and gave no
\* record
C24_Witness ==
  /\ lastCall = PlayerControllerCs
  /\ lastResult = None
  /\ PlayerControllerMeta \in pending
  /\ PendingFor(PlayerControllerCs.path)
  /\ guidToAssetMap = <<>>

\* the guids the registry holds
RegisteredGuids(map) == {map[i].guid : i \in 1..Len(map)}

\* C25: a parseFile call on a file that is not a meta file leaves the registry
\* and the registrations under way as they were; the registry changes only when
\* the call of a meta file completes; and the set of registered guids never
\* loses a member.
C25_OnlyMetaRegisters ==
  [][/\ (nCalls' = nCalls + 1 /\ Dispatch[lastCall'] # "meta") =>
          /\ guidToAssetMap' = guidToAssetMap
          /\ pending' = pending
     /\ guidToAssetMap' # guidToAssetMap =>
          \E m \in pending : m \notin pending' /\ Dispatch[m] = "meta"
     /\ RegisteredGuids(guidToAssetMap) \subseteq RegisteredGuids(guidToAssetMap')]_vars

\* a script, a scene and a file of another extension that itself holds a guid
\* line were parsed after a meta file was registered, and one asset is registered
C25_Witness ==
  /\ fed = {PlayerControllerMeta, PlayerControllerCs, Level1Unity, Readme}
  /\ lastCall = Readme
  /\ pending = {}
  /\ RegisteredGuids(guidToAssetMap) = {"abc123"}

\* the distinct guids that occur among the assets and the dependency targets
GuidsSeen(st) ==
  {st.assets[i].guid : i \in 1..Len(st.assets)}
  \cup {st.dependencies[i].target_guid : i \in 1..Len(st.dependencies)}

\* the body of dfs was entered at most once for each guid, and dependency_depth
\* is 0 when there is no asset or no record leaves an asset's guid
VisitedOnce(st) ==
  With(DepthTraversal(st).entered, LAMBDA entered :
    /\ \A i, j \in 1..Len(entered) : entered[i] = entered[j] => i = j
    /\ {entered[i] : i \in 1..Len(entered)} \subseteq GuidsSeen(st)
    /\ (\/ Len(st.assets) = 0
        \/ \A i \in 1..Len(st.dependencies), a \in 1..Len(st.assets) :
             st.dependencies[i].source_guid # st.assets[a].guid)
         => summary.dependency_depth = 0)

\* C26 as stated: each guid is visited at most once, dependency_depth is 0
\* without assets or without a record that leaves an asset's guid, and it lies
\* between 0 and the number of distinct guids among assets and dependency
\* targets, less one.
C26_DepthBounds ==
  summary # None =>
    /\ VisitedOnce(structure)
    /\ 0 <= summary.dependency_depth
    /\ summary.dependency_depth <= Cardinality(GuidsSeen(structure)) - 1

\* C26 as the code has it: the same, the upper bound being 0 for a structure in
\* which no guid occurs at all.
C26_DepthBoundsNonEmpty ==
  summary # None =>
    /\ VisitedOnce(structure)
    /\ 0 <= summary.dependency_depth
    /\ summary.dependency_depth
         <= (IF GuidsSeen(structure) = {} THEN 0 ELSE Cardinality(GuidsSeen(structure)) - 1)

\* the summary of a cycle through a, b and c entered at asset a, asset b coming
\* second: depth 2 with three guids, each entered once
C26_Witness ==
  /\ summary # None
  /\ ~Acyclic(structure)
  /\ Len(structure.assets) = 2
  /\ DepthTraversal(structure).entered = <<"a", "b", "c">>
  /\ summary.dependency_depth = 2

(***************************************************************************)
(* useUnityAnalyzer                                                        *)
(***************************************************************************)
\* analyzeProject calls made on one mounted hook
MaxRuns == 3

\* what a call in the try block can throw: an Error, or a value that is none
ThrownValues ==
  {[isError |-> TRUE, message |-> "Maximum call stack size exceeded"],
   [isError |-> FALSE, message |-> Null]}

\* the statements of the try block that call into the analyzer
TryCalls == <<"analyzeProject", "buildDependencyGraph", "generateProjectSummary">>

\* no analyzer is held outside a call of the hook
NoAnalyzer ==
  /\ projectPath = Null
  /\ projectId = Null
  /\ guidToAssetMap = <<>>
  /\ pending = {}
  /\ nextId = 1
  /\ nCalls = 0
  /\ lastCall = None
  /\ lastResult = None
  /\ regLog = <<>>
  /\ fed = {}
  /\ structure = None
  /\ graph = None
  /\ summary = None
  /\ view = [nodes |-> <<>>, edges |-> <<>>]
  /\ prevRun = None

\* the useState initial values
HookState ==
  [assets |-> <<>>, scripts |-> <<>>, scenes |-> <<>>, prefabs |-> <<>>,
   dependencyGraph |-> None, projectSummary |-> None, isAnalyzing |-> FALSE,
   error |-> Null]

\* the setters of the try block, up to the statement that throws (0: none does)
TrySets(state, s, thrownAt) ==
  [state EXCEPT
     !.assets = IF thrownAt = 1 THEN @ ELSE s.assets,
     !.scripts = IF thrownAt = 1 THEN @ ELSE s.scripts,
     !.scenes = IF thrownAt = 1 THEN @ ELSE s.scenes,
     !.prefabs = IF thrownAt = 1 THEN @ ELSE s.prefabs,
     !.dependencyGraph = IF thrownAt \in {1, 2} THEN @ ELSE buildDependencyGraph(s),
     !.projectSummary = IF thrownAt \in {1, 2, 3} THEN @ ELSE generateProjectSummary(s)]

\* the catch block's message
CaughtMessage(err) == IF err.isError THEN err.message ELSE "Failed to analyze project"

\* the structure the call's own analyzer returns
HookStructure(args) ==
  analyzeProject([projectPath |-> args.projectPath, projectId |-> args.projectId,
                  guidToAssetMap |-> <<>>])

Running(c) == c \in 1..Len(hook.calls) /\ hook.calls[c].status = "running"

\* analyzeProject up to its await: the call is suspended there
HookAnalyzeProject(args) ==
  /\ Len(hook.calls) < MaxRuns
  /\ hook' = [state |-> [hook.state EXCEPT !.isAnalyzing = TRUE, !.error = Null],
              calls |-> Append(hook.calls, [args |-> args, status |-> "running"])]
  /\ UNCHANGED <<analyzerVars, callVars, resultVars, retry, engine, planner>>

\* the rest of the try block after the await, then the finally block
HookResolved(c) ==
  /\ Running(c)
  /\ hook' = [state |-> [TrySets(hook.state, HookStructure(hook.calls[c].args), 0)
                           EXCEPT !.isAnalyzing = FALSE],
              calls |-> [hook.calls EXCEPT ![c].status = "resolved"]]
  /\ UNCHANGED <<analyzerVars, callVars, resultVars, retry, engine, planner>>

\* statement `at` of the try block throws: the catch block, then the finally block
HookThrew(c, at, err) ==
  /\ Running(c)
  /\ hook' = [state |-> [TrySets(hook.state, HookStructure(hook.calls[c].args), at)
                           EXCEPT !.error = CaughtMessage(err), !.isAnalyzing = FALSE],
              calls |-> [hook.calls EXCEPT ![c].status = "rejected"]]
  /\ UNCHANGED <<analyzerVars, callVars, resultVars, retry, engine, planner>>

HookClearAnalysis ==
  /\ hook' = [hook EXCEPT !.state = [HookState EXCEPT !.isAnalyzing = hook.state.isAnalyzing]]
  /\ UNCHANGED <<analyzerVars, callVars, resultVars, retry, engine, planner>>

InitHook ==
  /\ NoAnalyzer
  /\ hook = [state |-> HookState, calls |-> <<>>]
  /\ retry = None
  /\ engine = None
  /\ planner = None

NextHook ==
  \/ \E args \in ProjectArgs : HookAnalyzeProject(args)
  \/ \E c \in 1..MaxRuns : HookResolved(c)
  \/ \E c \in 1..MaxRuns, at \in DOMAIN TryCalls, err \in ThrownValues : HookThrew(c, at, err)
  \/ HookClearAnalysis

SpecHook == InitHook /\ [][NextHook]_vars

\* call c settles in this step
Settles(c) == Running(c) /\ hook'.calls[c].status # "running"

\* a call starts in this step
Starts == Len(hook'.calls) = Len(hook.calls) + 1

\* clearAnalysis runs in this step: no call starts or settles
Clears == hook'.calls = hook.calls /\ hook' # hook

\* C27: isAnalyzing is true from the start of an analyzeProject call until that
\* call settles and false once it has, whether it succeeded or threw; error is
\* cleared at the start and set only by a call that threw; after a success
\* dependencyGraph and projectSummary are both non-null and derived from the
\* structure whose arrays are held; clearAnalysis resets every result and the
\* error to their initial values.
C27_StateProtocol ==
  /\ [](\A c \in 1..MaxRuns : Running(c) => hook.state.isAnalyzing)
  /\ [][/\ (\E c \in 1..MaxRuns : Settles(c)) => ~hook'.state.isAnalyzing
        /\ Starts => hook'.state.error = Null
        /\ hook'.state.error \notin {Null, hook.state.error}
             => \E c \in 1..MaxRuns : Settles(c) /\ hook'.calls[c].status = "rejected"
        /\ \A c \in 1..MaxRuns :
             Settles(c) /\ hook'.calls[c].status = "resolved" =>
               /\ hook'.state.dependencyGraph # None
               /\ hook'.state.projectSummary # None
               /\ \E s \in {HookStructure(hook.calls[c].args)} :
                    /\ hook'.state.assets = s.assets
                    /\ hook'.state.scripts = s.scripts
                    /\ hook'.state.scenes = s.scenes
                    /\ hook'.state.prefabs = s.prefabs
                    /\ hook'.state.dependencyGraph = buildDependencyGraph(s)
                    /\ hook'.state.projectSummary = generateProjectSummary(s)
        /\ Clears =>
             hook'.state = [HookState EXCEPT !.isAnalyzing = hook.state.isAnalyzing]
       ]_vars

(***************************************************************************)
(* withRetry                                                               *)
(***************************************************************************)
\* the largest maxRetries a caller configures
MaxRetries == 3

DEFAULT_RETRY_CONFIG ==
  [maxRetries |-> 3, initialDelayMs |-> 1000, maxDelayMs |-> 10000, backoffMultiplier |-> 2]

\* the default configuration with another maxRetries; with -1 the loop body never runs
RetryConfigs == {[DEFAULT_RETRY_CONFIG EXCEPT !.maxRetries = n] : n \in -1..MaxRetries}

\* lastError, result and thrown before they are assigned
Undefined == [undefined |-> TRUE]

\* what the operation rejects with: a RetryableError, or an Error that carries
\* a status, a code, both or neither (status 0: none that `if (error.status)`
\* takes, code "": none that equals a code compared with)
OperationErrors ==
  {[retryable |-> TRUE, status |-> 0, code |-> "", message |-> "rate limited"],
   [retryable |-> FALSE, status |-> 503, code |-> "", message |-> "unavailable"],
   [retryable |-> FALSE, status |-> 404, code |-> "ECONNRESET", message |-> "not found"],
   [retryable |-> FALSE, status |-> 0, code |-> "ETIMEDOUT", message |-> "timed out"],
   [retryable |-> FALSE, status |-> 0, code |-> "", message |-> "bad request"]}

\* what the operation resolves with
OperationValues == {[value |-> "pong"]}

\* Math.random() in getRetryDelay, in hundredths
RandomHundredths == {0, 99}

RetryableStatuses == {429, 500, 502, 503, 504}
RetryableCodes == {"ECONNRESET", "ETIMEDOUT", "ENOTFOUND"}

isRetryableError(error) ==
  IF error.retryable THEN TRUE
  ELSE IF error.status # 0 THEN error.status \in RetryableStatuses
  ELSE error.code \in RetryableCodes

RECURSIVE Pow(_, _)
Pow(b, n) == IF n = 0 THEN 1 ELSE b * Pow(b, n - 1)

Min(a, b) == IF a <= b THEN a ELSE b

\* delay + delay * 0.1 * Math.random(), in whole milliseconds
getRetryDelay(attempt, config, random) ==
  With(Min(config.initialDelayMs * Pow(config.backoffMultiplier, attempt), config.maxDelayMs),
       LAMBDA delay : delay + (delay * random) \div 1000)

\* the Error thrown after the last attempt
OperationFailed(config, error) ==
  [message |-> "Operation failed after " \o ToString(config.maxRetries) \o " retries: "
                 \o error.message,
   cause |-> error]

\* the head of the for loop: the operation is invoked and awaited, or the loop is
\* left and lastError is thrown
LoopHead(r) ==
  IF r.attempt <= r.config.maxRetries
  THEN [r EXCEPT !.pc = "operation", !.invoked = @ + 1]
  ELSE [r EXCEPT !.pc = "threw", !.thrown = r.lastError]

\* a call of withRetry, up to its first await
Entered(config) ==
  LoopHead([config |-> config, attempt |-> 0, lastError |-> Undefined, pc |-> "loop",
            invoked |-> 0, failures |-> <<>>, delay |-> 0, result |-> Undefined,
            thrown |-> Undefined])

\* the awaited operation resolves: withRetry returns its value
OperationResolved(value) ==
  /\ retry.pc = "operation"
  /\ retry' = [retry EXCEPT !.pc = "returned", !.result = value]
  /\ UNCHANGED <<analyzerVars, callVars, resultVars, hook, engine, planner>>

\* a catch block that asks for the error's kind before it counts the attempts
OperationRejectedKindFirst(error, random) ==
  /\ retry.pc = "operation"
  /\ retry' =
       With([retry EXCEPT !.lastError = error, !.failures = Append(@, error)],
            LAMBDA r :
              IF ~isRetryableError(error)
              THEN [r EXCEPT !.pc = "threw", !.thrown = error]
              ELSE IF r.attempt = r.config.maxRetries
              THEN [r EXCEPT !.pc = "threw", !.thrown = OperationFailed(r.config, error)]
              ELSE [r EXCEPT !.pc = "sleep",
                             !.delay = getRetryDelay(r.attempt, r.config, random)])
  /\ UNCHANGED <<analyzerVars, callVars, resultVars, hook, engine, planner>>

\* the awaited operation rejects: the catch block, up to its throw or its await
OperationRejected(error, random) ==
  /\ retry.pc = "operation"
  /\ retry' =
       With([retry EXCEPT !.lastError = error, !.failures = Append(@, error)],
            LAMBDA r :
              IF r.attempt = r.config.maxRetries
              THEN [r EXCEPT !.pc = "threw", !.thrown = OperationFailed(r.config, error)]
              ELSE IF ~isRetryableError(error)
              THEN [r EXCEPT !.pc = "threw", !.thrown = error]
              ELSE [r EXCEPT !.pc = "sleep",
                             !.delay = getRetryDelay(r.attempt, r.config, random)])
  /\ UNCHANGED <<analyzerVars, callVars, resultVars, hook, engine, planner>>

\* the timer of sleep fires: attempt++, then the head of the loop
SleepResolved ==
  /\ retry.pc = "sleep"
  /\ retry' = LoopHead([retry EXCEPT !.attempt = @ + 1])
  /\ UNCHANGED <<analyzerVars, callVars, resultVars, hook, engine, planner>>

InitRetry ==
  /\ NoAnalyzer
  /\ hook = None
  /\ retry \in {Entered(config) : config \in RetryConfigs}
  /\ engine = None
  /\ planner = None

NextRetry ==
  \/ \E value \in OperationValues : OperationResolved(value)
  \/ \E error \in OperationErrors, random \in RandomHundredths : OperationRejected(error, random)
  \/ SleepResolved

SpecRetry == InitRetry /\ [][NextRetry]_vars

\* the operation's promise settles and the timer fires
SpecRetryFair == SpecRetry /\ WF_vars(NextRetry)

Settled == retry.pc \in {"returned", "threw"}

\* C28: the operation is invoked at most maxRetries + 1 times and the call
\* settles; it returns the value of the first attempt that succeeded, no attempt
\* following; an error that is not retryable is rethrown as it is right after
\* the attempt that raised it, unless that was attempt maxRetries + 1; the
\* failure of attempt maxRetries + 1 throws the "Operation failed after N
\* retries" error for every kind of error.
C28_BoundedRetries ==
  /\ [](/\ retry.invoked <= retry.config.maxRetries + 1
        /\ retry.invoked \in {Len(retry.failures), Len(retry.failures) + 1}
        /\ retry.pc = "returned" =>
             /\ retry.invoked = Len(retry.failures) + 1
             /\ retry.result \in OperationValues
        /\ \A k \in 1..Len(retry.failures) :
             /\ k = retry.config.maxRetries + 1 =>
                  /\ retry.pc = "threw"
                  /\ retry.thrown = OperationFailed(retry.config, retry.failures[k])
             /\ k < retry.config.maxRetries + 1 /\ ~isRetryableError(retry.failures[k]) =>
                  /\ k = Len(retry.failures)
                  /\ retry.pc = "threw"
                  /\ retry.thrown = retry.failures[k]
             /\ k < retry.config.maxRetries + 1 /\ isRetryableError(retry.failures[k]) =>
                  ~(retry.pc = "threw" /\ k = Len(retry.failures)))
  /\ [][Settled => retry' = retry]_vars
  /\ <>Settled

\* the fourth attempt under the default configuration failed with an error that
\* is not retryable, after three retryable failures
C28_Witness ==
  /\ retry.config = DEFAULT_RETRY_CONFIG
  /\ retry.invoked = 4
  /\ Len(retry.failures) = 4
  /\ ~isRetryableError(retry.failures[4])
  /\ retry.pc = "threw"
  /\ retry.thrown.message = "Operation failed after 3 retries: bad request"

(***************************************************************************)
(* ExecutionEngine                                                         *)
(***************************************************************************)
\* operations in a plan
MaxOps == 3

FileOperation(id, type, dependencies) ==
  [id |-> id, type |-> type, targetPath |-> "Assets/" \o id \o ".cs",
   dependencies |-> dependencies]

\* the types executeOperation's switch has a case for
OperationTypes ==
  {"create_file", "modify_file", "delete_file", "rename_file", "create_directory"}

\* the operations plans are made of; move_file is a type the switch has no case for
EngineOperationPool ==
  {FileOperation("op1", "create_file", <<>>), FileOperation("op2", "modify_file", <<"op1">>),
   FileOperation("op3", "move_file", <<>>), FileOperation("op4", "delete_file", <<"op2">>)}

EnginePlans ==
  {[id |-> "plan-1", operations |-> ops] : ops \in SeqsUpTo(EngineOperationPool, MaxOps)}

\* the onProgress argument: absent, or a callback whose call number throwsAt
\* throws (0: none does)
ProgressCallbacks ==
  {[present |-> FALSE, throwsAt |-> 0]} \cup {[present |-> TRUE, throwsAt |-> n] : n \in 0..2}

\* new Date().toISOString() at step t of the call
IsoTime(t) == "T" \o ToString(t)

\* onProgress?.(progress)
Notified(e) == IF e.onProgress.present THEN [e EXCEPT !.notified = @ + 1] ELSE e

\* the call of onProgress just made threw
CallbackThrew(e) == e.onProgress.present /\ e.onProgress.throwsAt = e.notified

\* executePlan's catch block, up to its await
Caught(e, error) ==
  [e EXCEPT !.progress.completedAt = IsoTime(e.tick), !.error = error, !.pc = "save"]

\* the head of the for loop, up to the await in its body; after the last
\* operation, the statements that follow the loop up to their await
Iterate(e) ==
  IF e.index > Len(e.plan.operations)
  THEN [e EXCEPT !.progress.completedAt = IsoTime(e.tick), !.pc = "save"]
  ELSE With(Notified([e EXCEPT !.progress.currentOperation = e.plan.operations[e.index]]),
            LAMBDA n : IF CallbackThrew(n)
                       THEN Caught(n, [message |-> "onProgress threw"])
                       ELSE [n EXCEPT !.pc = "operation",
                                      !.started = Append(@, e.plan.operations[e.index].id)])

\* executePlan, up to its first await
ExecutePlanCalled(plan, onProgress) ==
  Iterate([plan |-> plan, onProgress |-> onProgress, index |-> 1, tick |-> 0, notified |-> 0,
           progress |-> [planId |-> plan.id, totalOperations |-> Len(plan.operations),
                         completedOperations |-> 0, failedOperations |-> 0,
                         currentOperation |-> None, operationResults |-> <<>>,
                         startedAt |-> IsoTime(0), completedAt |-> Null],
           started |-> <<>>, logs |-> <<>>, saved |-> <<>>, error |-> None,
           pc |-> "called"])

\* createSnapshot: the id it returns, '' when the snapshot row was not stored
createSnapshot(e, stored) == IF stored THEN "snapshot_" \o ToString(e.tick) ELSE ""

\* executeOperation's result
executeOperation(e, operation, stored) ==
  IF operation.type \in OperationTypes
  THEN [operationId |-> operation.id, status |-> "completed", error |-> Null,
        snapshotId |-> IF operation.type \in {"modify_file", "delete_file"}
                       THEN createSnapshot(e, stored) ELSE Null]
  ELSE [operationId |-> operation.id, status |-> "failed",
        error |-> "Unknown operation type: " \o operation.type, snapshotId |-> Null]

\* logOperation's row
LogRow(operation, result) ==
  [action_type |-> operation.type, target_path |-> operation.targetPath,
   status |-> IF result.status = "completed" THEN "success" ELSE "failed"]

\* the result is pushed and counted
Counted(e, result) ==
  [e EXCEPT !.progress.operationResults = Append(@, result),
            !.progress.completedOperations = IF result.status = "completed" THEN @ + 1 ELSE @,
            !.progress.failedOperations = IF result.status = "failed" THEN @ + 1 ELSE @,
            !.logs = Append(@, LogRow(e.plan.operations[e.index], result)),
            !.tick = @ + 1]

\* a loop body that goes on to the next operation after a failed one
OperationSettledGoesOn(stored) ==
  /\ engine.pc = "operation"
  /\ engine' =
       With(Counted(engine, executeOperation(engine, engine.plan.operations[engine.index], stored)),
            LAMBDA e :
              With(Notified(e),
                   LAMBDA n : IF CallbackThrew(n)
                              THEN Caught(n, [message |-> "onProgress threw"])
                              ELSE Iterate([n EXCEPT !.index = @ + 1])))
  /\ UNCHANGED <<analyzerVars, callVars, resultVars, hook, retry, planner>>

\* the awaited executeOperation settles: the rest of the loop body, then the
\* head of the loop again or the catch block
OperationSettled(stored) ==
  /\ engine.pc = "operation"
  /\ engine' =
       With(Counted(engine, executeOperation(engine, engine.plan.operations[engine.index], stored)),
            LAMBDA e :
              IF e.progress.operationResults[e.index].status = "failed"
              THEN Caught(e, [message |-> "Operation failed: "
                                            \o e.progress.operationResults[e.index].error])
              ELSE With(Notified(e),
                        LAMBDA n : IF CallbackThrew(n)
                                   THEN Caught(n, [message |-> "onProgress threw"])
                                   ELSE Iterate([n EXCEPT !.index = @ + 1])))
  /\ UNCHANGED <<analyzerVars, callVars, resultVars, hook, retry, planner>>

\* savePlanExecution's row
PlanExecutionRow(planId, progress) ==
  [plan_id |-> planId, total_operations |-> progress.totalOperations,
   completed_operations |-> progress.completedOperations,
   failed_operations |-> progress.failedOperations,
   operation_results |-> progress.operationResults,
   started_at |-> progress.startedAt, completed_at |-> progress.completedAt]

\* the awaited savePlanExecution settles: executePlan returns progress or
\* rethrows what it caught
PlanExecutionSaved ==
  /\ engine.pc = "save"
  /\ engine' = [engine EXCEPT
                  !.saved = Append(@, PlanExecutionRow(engine.plan.id, engine.progress)),
                  !.pc = IF engine.error = None THEN "returned" ELSE "threw",
                  !.tick = @ + 1]
  /\ UNCHANGED <<analyzerVars, callVars, resultVars, hook, retry, planner>>

InitEngine ==
  /\ NoAnalyzer
  /\ hook = None
  /\ retry = None
  /\ engine \in {ExecutePlanCalled(plan, onProgress) :
                   plan \in EnginePlans, onProgress \in ProgressCallbacks}
  /\ planner = None

NextEngine ==
  \/ \E stored \in BOOLEAN : OperationSettled(stored)
  \/ PlanExecutionSaved

SpecEngine == InitEngine /\ [][NextEngine]_vars

\* C29: operations are executed in plan order up to the first failed one;
\* completedOperations + failedOperations = operationResults.length <=
\* totalOperations and failedOperations <= 1 throughout; no operation is
\* executed after a failed one; and the plan execution record is saved exactly
\* once, with completedAt set, whether executePlan returns or throws.
C29_StopsAtFirstFailure ==
  With(engine.progress,
       LAMBDA p :
         /\ p.completedOperations + p.failedOperations = Len(p.operationResults)
         /\ Len(p.operationResults) <= p.totalOperations
         /\ p.failedOperations <= 1
         /\ Len(engine.started) <= Len(engine.plan.operations)
         /\ \A i \in 1..Len(engine.started) : engine.started[i] = engine.plan.operations[i].id
         /\ Len(p.operationResults) \in {Len(engine.started), Len(engine.started) - 1}
         /\ \A i \in 1..Len(p.operationResults) :
              /\ p.operationResults[i].operationId = engine.started[i]
              /\ p.operationResults[i].status = "failed" => i = Len(engine.started)
         /\ Len(engine.saved) <= 1
         /\ engine.pc \in {"returned", "threw"} =>
              /\ Len(engine.saved) = 1
              /\ engine.saved[1].completed_at # Null
              /\ engine.saved[1].operation_results = p.operationResults
         /\ engine.pc = "returned" =>
              /\ p.failedOperations = 0
              /\ p.completedOperations = p.totalOperations
         /\ p.failedOperations = 1 => engine.pc \in {"save", "threw"})

\* a plan of three operations whose second has a type the engine does not know:
\* the first is completed, the second failed, the third never started, the
\* record saved once and the call thrown
C29_Witness ==
  /\ engine.pc = "threw"
  /\ Len(engine.plan.operations) = 3
  /\ engine.plan.operations[2].type = "move_file"
  /\ engine.plan.operations[3].type # "move_file"
  /\ engine.started = <<"op1", "op3">>
  /\ engine.progress.completedOperations = 1
  /\ engine.progress.failedOperations = 1
  /\ Len(engine.saved) = 1

(***************************************************************************)
(* ExecutionPlanner                                                        *)
(***************************************************************************)
\* the operations plans are made of: ids a to d, dependencies on each other, on
\* themselves and on an id no operation has
PlannerOperationPool ==
  {FileOperation("a", "create_file", <<>>), FileOperation("a", "modify_file", <<"c">>),
   FileOperation("a", "modify_file", <<"b">>), FileOperation("b", "create_file", <<"a">>),
   FileOperation("b", "modify_file", <<"b">>), FileOperation("b", "modify_file", <<"c", "a">>),
   FileOperation("c", "create_file", <<"b">>), FileOperation("c", "modify_file", <<"a", "b">>),
   FileOperation("c", "delete_file", <<"ghost">>), FileOperation("d", "create_directory", <<>>),
   FileOperation("d", "rename_file", <<"a", "d">>)}

\* plans of operations with distinct ids
PlannerPlans ==
  {[id |-> "plan-1", operations |-> ops] :
     ops \in {s \in SeqsUpTo(PlannerOperationPool, MaxOps) :
                \A i, j \in 1..Len(s) : s[i].id = s[j].id => i = j}}

\* operations.find(o => o.id === depId): its position, 0 when there is none
FindOperation(operations, depId) ==
  First(1, Len(operations), LAMBDA i : operations[i].id = depId)

RECURSIVE Visit(_, _, _)
RECURSIVE VisitDependencies(_, _, _, _)

\* a visit that pushes the operation before it visits its dependencies
VisitPushFirst(st, op, operations) ==
  IF op.id \in st.temp \/ op.id \in st.visited THEN st
  ELSE With(VisitDependencies([sorted |-> Append(st.sorted, op),
                               visited |-> st.visited \cup {op.id},
                               temp |-> st.temp \cup {op.id}], op, 1, operations),
            LAMBDA d : [d EXCEPT !.temp = @ \ {op.id}])

\* topologicalSort's visit
Visit(st, op, operations) ==
  IF op.id \in st.temp THEN st
  ELSE IF op.id \in st.visited THEN st
  ELSE With(VisitDependencies([st EXCEPT !.temp = @ \cup {op.id}], op, 1, operations),
            LAMBDA d : [sorted |-> Append(d.sorted, op),
                        visited |-> d.visited \cup {op.id},
                        temp |-> d.temp \ {op.id}])

\* op.dependencies.forEach, from dependency k on
VisitDependencies(st, op, k, operations) ==
  IF k > Len(op.dependencies) THEN st
  ELSE With(FindOperation(operations, op.dependencies[k]),
            LAMBDA i : VisitDependencies(IF i = 0 THEN st
                                         ELSE Visit(st, operations[i], operations),
                                         op, k + 1, operations))

\* operations.forEach, from operation k on
RECURSIVE VisitEach(_, _, _)
VisitEach(st, k, operations) ==
  IF k > Len(operations) THEN st
  ELSE VisitEach(IF operations[k].id \in st.visited THEN st
                 ELSE Visit(st, operations[k], operations),
                 k + 1, operations)

topologicalSort(operations) ==
  VisitEach([sorted |-> <<>>, visited |-> {}, temp |-> {}], 1, operations).sorted

optimizePlan(plan) ==
  [plan EXCEPT !.operations =
     SelectSeq(plan.operations, LAMBDA op : Len(op.dependencies) = 0)
       \o topologicalSort(SelectSeq(plan.operations, LAMBDA op : Len(op.dependencies) > 0))]

OptimizePlan ==
  /\ planner.optimized = None
  /\ planner' = [planner EXCEPT !.optimized = optimizePlan(planner.plan)]
  /\ UNCHANGED <<analyzerVars, callVars, resultVars, hook, retry, engine>>

InitPlanner ==
  /\ NoAnalyzer
  /\ hook = None
  /\ retry = None
  /\ engine = None
  /\ planner \in {[plan |-> plan, optimized |-> None] : plan \in PlannerPlans}

NextPlanner == OptimizePlan

SpecPlanner == InitPlanner /\ [][NextPlanner]_vars

\* the ids an operation of the plan names as dependencies that an operation of
\* the plan has
KnownDependencies(operations, op) ==
  {op.dependencies[k] : k \in 1..Len(op.dependencies)} \cap {o.id : o \in Range(operations)}

\* the ids reached from the ids in S along at most n dependencies
RECURSIVE DependedOn(_, _, _)
DependedOn(operations, S, n) ==
  IF n = 0 THEN S
  ELSE DependedOn(operations,
                  S \cup UNION {KnownDependencies(operations, o) :
                                  o \in {x \in Range(operations) : x.id \in S}},
                  n - 1)

\* no operation is reached again from its own dependencies
AcyclicPlan(operations) ==
  \A o \in Range(operations) :
    o.id \notin DependedOn(operations, KnownDependencies(operations, o), Len(operations))

\* C30: optimizePlan returns the plan's operations, each once, and when the
\* dependencies are acyclic every operation stands after each operation it
\* depends on; a result is returned as well when the dependencies have a cycle
\* or name an id no operation has.
C30_DependenciesFirst ==
  planner.optimized # None =>
    With(planner.optimized.operations,
         LAMBDA sorted :
           /\ Len(sorted) = Len(planner.plan.operations)
           /\ \A op \in Range(planner.plan.operations) :
                Cardinality({i \in 1..Len(sorted) : sorted[i] = op}) = 1
           /\ AcyclicPlan(planner.plan.operations) =>
                \A i \in 1..Len(sorted) :
                  \A depId \in KnownDependencies(sorted, sorted[i]) :
                    \E j \in 1..(i - 1) : sorted[j].id = depId)

\* a plan given as c, b, a in which c depends on b and b on a comes back as
\* a, b, c
C30_Witness ==
  /\ planner.optimized # None
  /\ AcyclicPlan(planner.plan.operations)
  /\ MapSeq(planner.plan.operations, LAMBDA op : op.id) = <<"c", "b", "a">>
  /\ planner.plan.operations[1].dependencies = <<"b">>
  /\ planner.plan.operations[2].dependencies = <<"a">>
  /\ MapSeq(planner.optimized.operations, LAMBDA op : op.id) = <<"a", "b", "c">>

====
